---------------------------- MODULE Spec2Model ----------------------------
(***************************************************************************)
(* ShortsCraft: the clip resolver (GET /api/search-video and its client    *)
(* wrapper generateSceneVideo) and the scene pipeline of the App component *)
(* (handleGenerate, handleExport).                                         *)
(*                                                                         *)
(* Strings that the code splits on ' ' are kept as the list of their       *)
(* space-separated words: "a b" is <<"a","b">>, "a  b" is <<"a","","b">>   *)
(* and the empty string is <<"">>.  Every string is exactly one non-empty  *)
(* list of space-free words, so s.split(' ') and words.join(' ') are the   *)
(* two directions of that encoding.                                        *)
(***************************************************************************)
EXTENDS Integers, Sequences, FiniteSets, TLC

\* ------------------------------------------------------------ bounds
\* longest query, in words, that a request carries
MaxWords == 2

\* ------------------------------------------------------------ values
\* a value is a URL or one of these; all are records, so that any two compare
NULL == [kind |-> "null", from |-> ""]
UNDEFINED == [kind |-> "undefined", from |-> ""]
PENDING == [kind |-> "pending", from |-> ""]
REJECTED == [kind |-> "rejected", from |-> ""]
NOTCALLED == [kind |-> "notcalled", from |-> ""]
NoResponse == [status |-> 0, url |-> UNDEFINED]

\* the words a query is made of
Words == {"sky"}

Min(a, b) == IF a < b THEN a ELSE b

\* the strings of at most n words
Strings(n) == UNION {[1..k -> Words] : k \in 1..n}

\* the empty query and the queries of 1..MaxWords words
Queries == {<<"">>} \cup Strings(MaxWords)

\* !s for a string
IsEmptyString(s) == s = <<"">>

\* the adapters in the order of the `sources` array
Adapters ==
  <<"Pexels", "Coverr", "Videvo", "Pixabay", "Mixkit", "Vidsplay",
    "MotionElements", "SplitShire", "Reddit">>

NumAdapters == Len(Adapters)

\* the clip an adapter extracts from its source
Clip(a) == [kind |-> "clip", from |-> a]

Clips == {Clip(Adapters[i]) : i \in 1..NumAdapters}

\* the `fallbacks` array: eight stock clips, told apart by their vimeo id
fallbacks ==
  << [kind |-> "fallback", from |-> "434045526"],
     [kind |-> "fallback", from |-> "403846614"],
     [kind |-> "fallback", from |-> "394740316"],
     [kind |-> "fallback", from |-> "449074011"],
     [kind |-> "fallback", from |-> "494252666"],
     [kind |-> "fallback", from |-> "459389137"],
     [kind |-> "fallback", from |-> "418306352"],
     [kind |-> "fallback", from |-> "371433846"] >>

FallbackPool == {fallbacks[i] : i \in 1..Len(fallbacks)}

\* a catch block that answers without a clip: res.json({})
noCriticalFallback == UNDEFINED

\* the clip the catch block of search-video answers with
criticalFallback == [kind |-> "fallback", from |-> "434045526"]

Urls == Clips \cup FallbackPool

\* JavaScript truthiness of a value that is null, undefined or a URL
Truthy(v) == v # NULL /\ v # UNDEFINED

\* ------------------------------------------------------------ resolver
\* const variations = [query, query + " cinematic",
\*                     query.split(' ').slice(0, 2).join(' ')]
variations(q) ==
  << q, q \o <<"cinematic">>, SubSeq(q, 1, Min(2, Len(q))) >>

\* for (const term of variations) { if (!term) continue; ... }: the index of
\* the first variation after k that is tried, 0 when none is left
NextTerm(q, k) ==
  LET later == {j \in (k + 1)..Len(variations(q)) :
                  ~IsEmptyString(variations(q)[j])}
  IN  IF later = {} THEN 0
      ELSE CHOOSE j \in later : \A j2 \in later : j <= j2

\* One adapter invocation.  `opened`: await browser.newPage() succeeded (it
\* stands before the try block); `found`: what the try block came to, a
\* candidate, nothing, or an exception (caught, logged, null); `closed`: the
\* await page.close() of the finally block succeeded.  Reddit's adapter
\* returns null on every path.
tryAdapter(a, opened, found, closed) ==
  IF ~opened THEN REJECTED
  ELSE IF ~closed THEN REJECTED
  ELSE IF found = "candidate" /\ a # "Reddit" THEN Clip(a)
  ELSE NULL

\* a selection that overlooks every candidate
findNothing(results) == UNDEFINED

\* results.find(url => url !== null)
find(results) ==
  LET hits == {i \in 1..Len(results) : results[i] # NULL}
  IN  IF hits = {} THEN UNDEFINED
      ELSE results[CHOOSE i \in hits : \A j \in hits : i <= j]

\* generateSceneVideo given what its fetch came to: a thrown fetch (no
\* response) or a response that is not ok is caught and null is returned,
\* otherwise data.url
generateSceneVideo(resp) ==
  IF resp.status = 200 THEN resp.url ELSE NULL

\* ------------------------------------------------------------ App
\* bounds of the App model
MaxScenes == 2
MaxProjects == 2

\* const maxAttempts = 2
maxAttempts == 2

\* the clips generateSceneVideo hands to the App
SceneUrls == {Clip("Pexels"), criticalFallback}

\* what mergeVideos returns on success
MergedUrl == [kind |-> "merged", from |-> "final_short"]

\* currentShort === null
NoProject == [id |-> 0, scenes |-> <<>>, finalVideoUrl |-> UNDEFINED]

\* the scene objects: every copy of a scenes array ([...scenes]) holds the
\* same objects, so a scene is a reference <<project, k>> into sceneObj
SceneRefs == (1..MaxProjects) \X (1..MaxScenes)

\* a loop condition that allows one attempt more: attempts <= maxAttempts
whileContinuesOnceMore(found, n) == ~found /\ n <= maxAttempts

\* a loop condition that gives up the scenes after the first attempt
whileNeverContinues(found, n) == FALSE

\* while (!foundValidVideo && attempts < maxAttempts)
whileContinues(found, n) == ~found /\ n < maxAttempts

\* an export that attaches whatever mergeVideos came to
attachesAnyResult(mergedUrl) == TRUE

\* if (mergedUrl) { ...; setCurrentShort(updatedProject); ... }
attaches(mergedUrl) == Truthy(mergedUrl)

\* a generation that keeps the resolved URL whatever verifyVideo said
storedUnverified(scene, url, isValid) == [scene EXCEPT !.videoUrl = url]

\* if (isValid) { updatedScenes[i].videoUrl = videoUrl; ... }
stored(scene, url, isValid) ==
  IF isValid THEN [scene EXCEPT !.videoUrl = url] ELSE scene

\* a delay between scenes only
delaysBetweenScenes(i, n) == i > 0

\* if (i > 0 || attempts > 1) await new Promise(r => setTimeout(r, 2000))
needsDelay(i, n) == i > 0 \/ n > 1

\* a recheck that recovers every scene, valid or not
alwaysRecovers(isValid) == TRUE

\* if (!isValid) { needsRecovery = true; ... generateSceneVideo(...) }
needsRecovery(isValid) == ~isValid

\* one scene's contribution to updatedScenes.map(s => s.videoUrl).filter(Boolean)
keptUrl(scene) == IF Truthy(scene.videoUrl) THEN <<scene.videoUrl>> ELSE <<>>

RECURSIVE finalUrlsOf(_, _)
finalUrlsOf(scenes, heap) ==
  IF scenes = <<>> THEN <<>>
  ELSE keptUrl(heap[Head(scenes)]) \o finalUrlsOf(Tail(scenes), heap)

\* if (finalUrls.length === 0) { alert(...); return }
exportRefused(finalUrls) == Len(finalUrls) = 0

\* if (finalUrls.length < updatedScenes.length) { confirm(...) }
needsConfirm(finalUrls, n) == Len(finalUrls) < n

\* setCurrentShort(prev => prev ? { ...prev, scenes: [...updatedScenes] } : null)
withScenes(prev, scenes) ==
  IF prev = NoProject THEN NoProject ELSE [prev EXCEPT !.scenes = scenes]

\* ------------------------------------------------------------ merge-videos
\* bounds of the assembly model
MaxClips == 2
MaxJobs == 2

\* remote media, told apart by name; dur is their length in frames
Videos == {[name |-> "v1", dur |-> 1], [name |-> "v2", dur |-> 2]}
Audios == {[name |-> "a1", dur |-> 2], [name |-> "a2", dur |-> 1]}

\* the lists of at most n items of S
Lists(S, n) == UNION {[1..k -> S] : k \in 0..n}

\* a field of req.body: an array, or missing (undefined, or no array)
Missing == [given |-> FALSE, items |-> <<>>]
Given(list) == [given |-> TRUE, items |-> list]
VideoFields == {Missing} \cup {Given(l) : l \in Lists(Videos, MaxClips)}
AudioFields == {Missing} \cup {Given(l) : l \in Lists(Audios, MaxClips)}

\* the earlier route's check: only videoUrls is looked at
videoUrlsGiven(videoUrls, audioUrls) ==
  videoUrls.given /\ Len(videoUrls.items) # 0

\* neither of the two `return res.status(400)` is taken:
\* !(!videoUrls || !Array.isArray(videoUrls) || videoUrls.length === 0) and
\* !(!audioUrls || !Array.isArray(audioUrls) || audioUrls.length !== videoUrls.length)
requestAccepted(videoUrls, audioUrls) ==
  /\ videoUrls.given /\ Len(videoUrls.items) # 0
  /\ audioUrls.given /\ Len(audioUrls.items) = Len(videoUrls.items)

\* what uuidv4() can return
Uuids == {"u1", "u2"}

\* a mkdir that accepts an existing directory ({ recursive: true })
mkdirRecursive(dirs, dir) == FALSE

\* fs.mkdirSync(jobDir) throws when the directory exists
mkdirSyncThrows(dirs, dir) == dir \in dirs

\* file names inside a job directory
rawVideoPath(i) == [kind |-> "raw_v", i |-> i, id |-> ""]
rawAudioPath(i) == [kind |-> "raw_a", i |-> i, id |-> ""]
sceneOutputPath(i) == [kind |-> "scene", i |-> i, id |-> ""]

\* an output name that does not carry the job's identifier
fixedFilename(jobId) == [kind |-> "final_short", i |-> 0, id |-> ""]

\* const outputFilename = `final_short_${jobId}.mp4`
outputFilename(jobId) == [kind |-> "final_short", i |-> 0, id |-> jobId]

\* the url of res.json({ url: `/temp/${jobId}/${outputFilename}` })
NoUrl == [dir |-> "", file |-> [kind |-> "", i |-> 0, id |-> ""]]
tempUrl(jobId, file) == [dir |-> jobId, file |-> file]

\* a file's content: the (clip, audio) segments it plays and its length
Raw(clip, audio, dur) ==
  [segments |-> <<[clip |-> clip, audio |-> audio]>>, dur |-> dur]

\* the files of the temp directory and the file at a path
fileAt(fs, dir, name) == CHOOSE f \in fs : f.dir = dir /\ f.name = name
exists(fs, dir, name) == \E f \in fs : f.dir = dir /\ f.name = name
write(fs, dir, name, content, job) ==
  {f \in fs : ~(f.dir = dir /\ f.name = name)}
    \cup {[dir |-> dir, name |-> name, content |-> content, by |-> job]}

\* resolve(metadata.format.duration || 0)
probedDuration(d) == IF d = 0 THEN 0 ELSE d

\* an encode that plays the clip once: no -stream_loop
encodedOnce(clipDur, audioDur, t) == Min(Min(clipDur, audioDur), t)

\* the length of the encoded scene: the clip is looped without end
\* (-stream_loop -1), -shortest ends it with the audio, -t cuts it at t
encodedDuration(clipDur, audioDur, t) == Min(audioDur, t)

\* a list that takes new elements at its head
unshift(list, x) == <<x>> \o list

\* scenePaths.push(sceneOutputPath)
push(list, x) == Append(list, x)

\* mergeToFile over the inputs in the order of scenePaths
RECURSIVE concat(_, _, _)
concat(fs, dir, paths) ==
  IF paths = <<>> THEN [segments |-> <<>>, dur |-> 0]
  ELSE LET head == fileAt(fs, dir, Head(paths)).content
           rest == concat(fs, dir, Tail(paths))
       IN  [segments |-> head.segments \o rest.segments,
            dur |-> head.dur + rest.dur]

NoJob ==
  [pc |-> "idle", videoUrls |-> Missing, audioUrls |-> Missing, jobId |-> "",
   i |-> 0, duration |-> 0, scenePaths |-> <<>>, failedAt |-> "none",
   response |-> [status |-> 0, url |-> NoUrl]]

\* a job that goes on with the next scene after a failure, as the earlier
\* route does after a download that failed three times
skipScene(job) ==
  [job EXCEPT !.i = @ + 1,
              !.pc = IF job.i + 1 < Len(job.videoUrls.items)
                     THEN "video" ELSE "concat"]

\* catch (error) { res.status(500).json({ error: ... }) }
catchBlock(job) ==
  [job EXCEPT !.pc = "done", !.response = [status |-> 500, url |-> NoUrl]]

\* ------------------------------------------------------------ verify-video
\* longest path, in tokens, of a URL to verify
MaxPath == 2

\* A URL is kept as the tokens of its path and of its query string; the
\* URL string is the path followed by the query
PathTokens == {"/clip", ".mp4", ".webm", ".mov"}
Paths == UNION {[1..k -> PathTokens] : k \in 1..MaxPath}
QueryStrings == {<<>>, <<"?ref=">>, <<"?ref=", ".mp4">>}
EmptyUrl == [path |-> <<>>, query |-> <<>>]
VerifyUrls == {EmptyUrl} \cup [path : Paths, query : QueryStrings]

\* the content-type header of the answer, '' when there is none
ContentTypes == {<<>>, <<"video", "/mp4">>, <<"text", "/html">>}

\* the statuses axios resolves with (validateStatus: 2xx)
HeadStatuses == {200, 204}
NoHead == [status |-> 0, contentType |-> <<>>]

\* the number of requests for the URL and of changes of the remote resource
MaxCalls == 2
MaxChanges == 1

\* The remote resource behind the URL, as a HEAD request finds it: it
\* answers with a status and a content type, or the request fails (status
\* 0: no route to the host, a timeout, a malformed URL)
RemoteStatuses == HeadStatuses \cup {404}
Unreachable == NoHead
RemoteStates == {Unreachable} \cup [status : RemoteStatuses, contentType : ContentTypes]

\* a request method that is not safe: the resource is gone once it answered
delete(resource) == Unreachable

\* method: "head" leaves the resource as it is
head(resource) == resource

\* axios resolves with a 2xx answer and throws on everything else
resolves(resource) == resource.status \in HeadStatuses

\* a value of a JSON body's `valid`: a boolean, or undefined when the body
\* has no such property
Bool(b) == IF b THEN "true" ELSE "false"
NoVerifyResponse == [status |-> 0, valid |-> "undefined"]

\* s.includes(token), s a list of tokens
includes(s, token) == \E k \in 1..Len(s) : s[k] = token

\* a test of the path's extension only
pathEndsWith(url, token) ==
  Len(url.path) > 0 /\ url.path[Len(url.path)] = token

\* url.includes('.mp4'), url.includes('.webm'): anywhere in the URL string
urlIncludes(url, token) == includes(url.path \o url.query, token)

\* const isVideo = contentType.includes('video') || url.includes('.mp4')
\*                 || url.includes('.webm')
isVideo(url, contentType) ==
  \/ includes(contentType, "video")
  \/ urlIncludes(url, ".mp4")
  \/ urlIncludes(url, ".webm")

\* response.ok
ok(resp) == resp.status \in 200..299

\* a client that reads data.valid from whatever the route answered
verifyVideoUnchecked(resp) ==
  IF resp = NoVerifyResponse THEN "false" ELSE resp.valid

\* the client's verifyVideo: a thrown fetch (no response) is caught, a
\* response that is not ok returns false, otherwise data.valid
verifyVideo(resp) ==
  IF resp = NoVerifyResponse THEN "false"
  ELSE IF ~ok(resp) THEN "false"
  ELSE resp.valid

\* ------------------------------------------------------------ adapters
\* bounds of the adapter model: the links and the video elements a search
\* page shows
MaxLinks == 4
MaxSrcs == 2

\* A URL is kept as a list of tokens.  The media URLs a page can hold: a
\* clean one, a preview, one of a denylisted provider and one of a
\* denylisted provider spelled with a capital
MediaUrls ==
  { <<"https://cdn/", "clip", ".mp4">>,
    <<"https://cdn/", "preview", ".mp4">>,
    <<"https://", "pond5", "/clip.mp4">>,
    <<"https://", "Getty", "/clip.mp4">> }

\* video ? video.src : null
NoSrc == <<>>

\* the detail links a search page can show
LinkUrls ==
  { <<"https://site/videos/", "clip", "-1/">>,
    <<"https://site/videos/", "iStock", "-2/">> }

\* what an adapter's promise holds
Running == [kind |-> "pending", url |-> <<>>]
Rejected == [kind |-> "rejected", url |-> <<>>]
NoCandidate == [kind |-> "null", url |-> <<>>]
Candidate(url) == [kind |-> "url", url |-> url]

\* const forbidden = [...]
forbidden ==
  {"shutterstock", "envato", "adobe", "istock", "getty", "pond5",
   "depositphotos", "dreamstime", "123rf", "canva"}

\* url.toLowerCase()
toLowerCase(url) ==
  [k \in 1..Len(url) |->
     CASE url[k] = "Getty" -> "getty"
       [] url[k] = "iStock" -> "istock"
       [] OTHER -> url[k]]

\* a denylist test that compares the URL as it is spelled
isWatermarkedAsSpelled(url) == \E word \in forbidden : includes(url, word)

\* const isWatermarked = (url) =>
\*   forbidden.some(word => url.toLowerCase().includes(word))
isWatermarked(url) == \E word \in forbidden : includes(toLowerCase(url), word)

AdapterNames == {Adapters[i] : i \in 1..NumAdapters}

\* where an adapter looks for the media URL of a link: on a page of its own
\* per link (Pixabay, Mixkit), on its search page (Coverr, Vidsplay,
\* SplitShire), or nowhere: it takes the URLs the search page holds
detailPages(a) ==
  CASE a \in {"Pixabay", "Mixkit"} -> "new"
    [] a \in {"Coverr", "Vidsplay", "SplitShire"} -> "same"
    [] OTHER -> "none"

\* a sample of five links: pinLinks.slice(0, 5)
sampleFive(a) == 5

\* .slice(0, 3), .slice(0, 2) (Vidsplay), videoLinks[0] (SplitShire)
sampleSize(a) ==
  CASE a = "Vidsplay" -> 2
    [] a = "SplitShire" -> 1
    [] OTHER -> 3

\* videoLinks.sort(() => 0.5 - Math.random()): any order (SplitShire takes
\* the list as it is)
shuffles(a, videoLinks) ==
  IF a = "SplitShire" THEN {videoLinks}
  ELSE {[i \in 1..Len(videoLinks) |-> videoLinks[p[i]]] :
          p \in Permutations(1..Len(videoLinks))}

\* const randomLinks = videoLinks.sort(...).slice(0, 3)
randomLinks(a, videoLinks) ==
  {SubSeq(l, 1, Min(sampleSize(a), Len(l))) : l \in shuffles(a, videoLinks)}

\* if (isWatermarked(videoPageUrl)) continue  (Pixabay only)
checksLink(a) == a = "Pixabay"

\* if (videoSrc && !isWatermarked(videoSrc)) return videoSrc
accepted(videoSrc) == videoSrc # NoSrc /\ ~isWatermarked(videoSrc)

\* the elements of a list, as candidates
candidates(list) == {Candidate(list[i]) : i \in 1..Len(list)}

\* tryVidevo from the srcs of its search page on
tryVidevo(videoSrcs) ==
  LET validSrcs == SelectSeq(videoSrcs, LAMBDA src :
                     /\ ~isWatermarked(src)
                     /\ ~includes(src, "preview")
                     /\ ~includes(src, "small"))
      fallbackSrcs == SelectSeq(videoSrcs, LAMBDA src : ~isWatermarked(src))
      bestSrcs == IF Len(validSrcs) > 0 THEN validSrcs ELSE fallbackSrcs
  IN  IF Len(videoSrcs) > 0 /\ Len(bestSrcs) > 0
      THEN candidates(bestSrcs) ELSE {NoCandidate}

\* tryMotionElements from the srcs of its search page on
tryMotionElements(videoSrcs) ==
  LET validSrcs == SelectSeq(videoSrcs, LAMBDA src : ~isWatermarked(src))
  IN  IF Len(videoSrcs) > 0 /\ Len(validSrcs) > 0
      THEN candidates(SubSeq(validSrcs, 1, Min(Len(validSrcs), 3)))
      ELSE {NoCandidate}

\* tryPexels from its video cards on: the response listener collects the
\* media URLs that pass its tests while the cards are hovered
tryPexels(videoCards, responses) ==
  LET collectedVideos == SelectSeq(responses, LAMBDA url :
                           /\ includes(url, ".mp4") \/ includes(url, "/clip.mp4")
                           /\ ~includes(url, "preview")
                           /\ ~includes(url, "tiny")
                           /\ ~includes(url, "small")
                           /\ ~isWatermarked(url))
  IN  IF videoCards = 0 THEN {NoCandidate}
      ELSE IF Len(collectedVideos) > 0 THEN candidates(collectedVideos)
      ELSE {NoCandidate}

\* what an adapter without detail links returns for what its page holds
fromSearchPage(a, videoCards, srcs) ==
  CASE a = "Pexels" -> tryPexels(videoCards, srcs)
    [] a = "Videvo" -> tryVidevo(srcs)
    [] a = "MotionElements" -> tryMotionElements(srcs)
    [] OTHER -> {NoCandidate}

\* A page: open, closed by close(), or gone (its target died: a crash, a
\* lost connection); `failed`: a navigation or evaluation on it threw
Page(kind) == [kind |-> kind, status |-> "open", failed |-> FALSE]

\* page.isClosed()
isClosed(page) == page.status # "open"

\* await page.close(): it closes an open page, or throws because the page's
\* target is gone (it may die under the call)
close(page) ==
  IF page.status = "open"
  THEN {[page |-> [page EXCEPT !.status = "closed"], threw |-> FALSE],
        [page |-> [page EXCEPT !.status = "gone"], threw |-> TRUE]}
  ELSE {[page |-> page, threw |-> TRUE]}

\* a finally block that leaves the detail page as it is
leavesOpen(page) == FALSE

\* finally { if (!detailPage.isClosed()) await detailPage.close() }
closesInFinally(page) == ~isClosed(page)

\* one adapter invocation
NoAdapter ==
  [name |-> "", pc |-> "idle", pages |-> <<>>, found |-> 0, links |-> <<>>,
   k |-> 0, visited |-> 0, seen |-> {}, result |-> Running]

\* the search page's finally { await page.close() }, then the return of
\* `value`; a close that throws rejects the adapter's promise
Leave(ad, value) ==
  {[ad EXCEPT !.pc = "done", !.pages[1] = c.page,
              !.result = IF c.threw THEN Rejected ELSE value] :
     c \in close(ad.pages[1])}

\* for (const link of randomLinks) from link k on: the links Pixabay skips,
\* then the detail page is opened (browser.newPage() may throw into the
\* search page's catch) or the search page is about to go to the link;
\* after the last link: return null
RECURSIVE Advance(_, _)
Advance(ad, k) ==
  IF k > Len(ad.links) THEN Leave(ad, NoCandidate)
  ELSE IF checksLink(ad.name) /\ isWatermarked(ad.links[k]) THEN Advance(ad, k + 1)
  ELSE IF detailPages(ad.name) = "new"
  THEN {[ad EXCEPT !.pc = "detail", !.k = k, !.pages = Append(@, Page("detail"))]}
         \cup Leave(ad, NoCandidate)
  ELSE {[ad EXCEPT !.pc = "detail", !.k = k]}

\* the finally block of a detail page, then the return of `value` or the
\* next link; a close that throws goes to the search page's catch
InnerFinally(ad, returning, value) ==
  LET n == Len(ad.pages)
      After(x) == IF returning THEN Leave(x, value) ELSE Advance(x, ad.k + 1)
  IN  IF closesInFinally(ad.pages[n])
      THEN UNION {IF c.threw
                  THEN Leave([ad EXCEPT !.pages[n] = c.page], NoCandidate)
                  ELSE After([ad EXCEPT !.pages[n] = c.page]) :
                    c \in close(ad.pages[n])}
      ELSE After(ad)

\* the page a link is looked up on
DetailPage(ad) == IF detailPages(ad.name) = "new" THEN Len(ad.pages) ELSE 1

\* goto(link) or evaluate throws; the page stays open or is gone
DetailThrows(ad) ==
  UNION {LET ad2 == [ad EXCEPT !.visited = @ + 1,
                               !.pages[DetailPage(ad)] =
                                  [@ EXCEPT !.status = st, !.failed = TRUE]]
         IN  IF detailPages(ad.name) = "new"
             THEN InnerFinally(ad2, FALSE, NoCandidate)
             ELSE Leave(ad2, NoCandidate) :
           st \in {"open", "gone"}}

\* the detail page holds videoSrc (or no video element)
DetailReturns(ad, videoSrc) ==
  LET ad2 == [ad EXCEPT !.visited = @ + 1, !.seen = @ \cup {videoSrc}]
      n == Len(ad.pages)
  IN  IF detailPages(ad.name) = "same"
      THEN IF accepted(videoSrc) THEN Leave(ad2, Candidate(videoSrc))
           ELSE Advance(ad2, ad.k + 1)
      ELSE IF accepted(videoSrc)
      THEN UNION {InnerFinally([ad2 EXCEPT !.pages[n] = c.page],
                               ~c.threw, Candidate(videoSrc)) :
                    c \in close(ad2.pages[n])}
      ELSE InnerFinally(ad2, FALSE, NoCandidate)

\* ------------------------------------------------------------ narration
\* generateAudio(text, retries = 5)
defaultRetries == 5

\* error.message of what ai.models.generateContent throws, as a list of
\* tokens; <<>> stands for an error without a message
Messages ==
  { <<"got status: ", "429", " Too Many Requests">>,
    <<"got status: ", "RESOURCE_EXHAUSTED">>,
    <<"got status: ", "500", " Internal">>,
    <<>> }

\* Math.random() * 2000, its ends
Jitters == {0, 1999}

\* what an attempt ended with
DataUrl == [outcome |-> "audio", message |-> <<>>]
NoAudio == [outcome |-> "empty", message |-> <<>>]
Thrown(message) == [outcome |-> "error", message |-> message]

\* error.message?.includes('429') || error.message?.includes('RESOURCE_EXHAUSTED')
isRateLimit(message) ==
  includes(message, "429") \/ includes(message, "RESOURCE_EXHAUSTED")

\* a loop that goes on after any error, as fetchWithRetry does
retriesAnyError(message, i, retries) == i < retries - 1

\* if (isRateLimit && i < retries - 1) { ...; continue }
retriesAgain(message, i, retries) == isRateLimit(message) /\ i < retries - 1

\* a wait that grows by 5000 ms per attempt
linearBackoff(i, jitter) == (i + 1) * 5000 + jitter

\* Math.pow(2, i) * 5000 + Math.random() * 2000
backoff(i, jitter) == (2 ^ i) * 5000 + jitter

\* one call of generateAudio: i is the loop counter, log the attempts made,
\* delays the backoffs slept, result what the call returned
NoCall ==
  [pc |-> "idle", retries |-> 0, i |-> 0, log |-> <<>>, delays |-> <<>>,
   result |-> "pending"]

\* ------------------------------------------------------------ regeneration
\* bound: the regenerations of a run
MaxRegens == 1

\* a regeneration that stores whatever the resolver call came to
storesAnyResult(videoUrl) == TRUE

\* if (videoUrl) { updatedScenes[index].videoUrl = videoUrl; ... }
hasVideoUrl(videoUrl) == Truthy(videoUrl)

\* one run of handleRegenerateScene: the currentShort of its closure, its
\* index, the service calls it made and the videoUrl it got
NoRegen ==
  [pc |-> "idle", short |-> NoProject, index |-> 0, calls |-> <<>>,
   videoUrl |-> UNDEFINED]

\* updatedScenes[index]
Target(reg) == reg.short.scenes[reg.index + 1]

\* ------------------------------------------------------------ fetchWithRetry
\* fetchWithRetry(url, options = {}, maxRetries = 3)
maxRetries == 3

\* the statuses a response of the server can carry
FetchStatuses == {200, 400, 429, 500}

\* what an attempt ended with: a response, or the network error raised by
\* attempt number `error` (1-based)
Responded(status) == [kind |-> "response", status |-> status, error |-> 0]
Raised(attempt) == [kind |-> "error", status |-> 0, error |-> attempt]

\* what the call ended with; error 0 is new Error(`Failed after ...`)
ReturnedResponse(status) == [kind |-> "returned", status |-> status, error |-> 0]
Threw(error) == [kind |-> "threw", status |-> 0, error |-> error]
Unsettled == [kind |-> "pending", status |-> 0, error |-> 0]

\* if (response.status === 429 || (response.status >= 500 && i < maxRetries - 1))
retriesResponse(status, i) ==
  status = 429 \/ (status >= 500 /\ i < maxRetries - 1)

\* Math.pow(2, i) * 2000 + Math.random() * 1000 after a response (the ends
\* of the jitter), Math.pow(2, i) * 2000 after an error
FetchJitters == {0, 999}
fetchDelay(i, jitter) == (2 ^ i) * 2000 + jitter

\* one call: i the loop counter, log the attempts made, delays the delays
\* slept, lastError the attempt whose error is kept (0: null)
NoFetch ==
  [pc |-> "idle", i |-> 0, log |-> <<>>, delays |-> <<>>, lastError |-> 0,
   result |-> Unsettled]

\* continue: i++, and when the loop is over
\* throw lastError || new Error(`Failed after ${maxRetries} retries`)
Continue(call) ==
  IF call.i + 1 < maxRetries
  THEN [call EXCEPT !.pc = "fetching", !.i = @ + 1]
  ELSE [call EXCEPT !.pc = "done", !.i = @ + 1, !.result = Threw(call.lastError)]

\* ------------------------------------------------------------ state
VARIABLES
  query,      \* req.query.q of the request being served
  rpc,        \* where the search-video handler stands
  browser,    \* "none" | "open" | "closed"
  round,      \* index in variations of the term being searched, 0 before
  sources,    \* the promises of the round: PENDING, REJECTED, null or a URL
  tried,      \* the terms the adapters were invoked with, in order
  joined,     \* the results array of every round whose Promise.all resolved
  response    \* what res.json / res.status sent (NoResponse: nothing)

resolverVars ==
  <<query, rpc, browser, round, sources, tried, joined, response>>


Idle == [i \in 1..NumAdapters |-> NOTCALLED]
AllPending == [i \in 1..NumAdapters |-> PENDING]

ResolverInit ==
  /\ query = <<"">>
  /\ rpc = "idle"
  /\ browser = "none"
  /\ round = 0
  /\ sources = Idle
  /\ tried = <<>>
  /\ joined = <<>>
  /\ response = NoResponse

VARIABLES
  isGenerating, isMerging, \* the two flags of the component
  currentShort,            \* the project on screen, NoProject for null
  history,                 \* the projects of the history list, newest first
  finalVideoUrl,           \* the finalVideoUrl state, NULL for null
  sceneObj,                \* the scene objects, by reference
  created,                 \* projects created so far
  gpc,                     \* where handleGenerate stands
  newShort,                \* its newShort (updatedScenes is its scenes)
  gi, attempts, foundValidVideo, videoUrl,   \* its locals (videoUrl: the URL
                           \* being verified, UNDEFINED outside the call)
  gResolve, gVerify,       \* per scene: generateSceneVideo / verifyVideo calls
  gOutcome,                \* per scene: what each attempt came to (the three
                           \* record the last generation until an export starts)
  epc,                     \* where handleExport stands
  eShort,                  \* the currentShort it captured
  ei,                      \* its loop index
  exam,                    \* per scene examined by this export, in order
  mergeArgs,               \* the finalUrls handed to mergeVideos, per call
  exportResult,            \* how the last export ended, "none" while running
  prompt                   \* the confirm(...) of this export: "none" (not
                           \* shown), "confirmed" or "declined"

genVars ==
  <<gpc, newShort, gi, attempts, foundValidVideo, videoUrl, gResolve, gVerify, gOutcome>>

exportVars == <<epc, eShort, ei, exam, mergeArgs, exportResult, prompt>>

uiVars ==
  <<isGenerating, isMerging, currentShort, history, finalVideoUrl, sceneObj, created>>

appVars == <<uiVars, genVars, exportVars>>

NoCalls == [k \in 1..MaxScenes |-> 0]
NoOutcomes == [k \in 1..MaxScenes |-> <<>>]

AppInit ==
  /\ isGenerating = FALSE
  /\ isMerging = FALSE
  /\ currentShort = NoProject
  /\ history = <<>>
  /\ finalVideoUrl = NULL
  /\ sceneObj = [r \in SceneRefs |-> [imagePrompt |-> <<"">>, videoUrl |-> UNDEFINED]]
  /\ created = 0
  /\ gpc = "idle"
  /\ newShort = NoProject
  /\ gi = 0
  /\ attempts = 0
  /\ foundValidVideo = FALSE
  /\ videoUrl = UNDEFINED
  /\ gResolve = NoCalls
  /\ gVerify = NoCalls
  /\ gOutcome = NoOutcomes
  /\ epc = "idle"
  /\ eShort = NoProject
  /\ ei = 0
  /\ exam = <<>>
  /\ mergeArgs = <<>>
  /\ exportResult = "none"
  /\ prompt = "none"

VARIABLES
  jobs,       \* the merge-videos requests, by slot: where each handler stands
  dirs,       \* the job directories that exist under TEMP_DIR
  files       \* the files under TEMP_DIR (`by`: the slot that wrote last)

mergeVars == <<jobs, dirs, files>>

MergeInit ==
  /\ jobs = [j \in 1..MaxJobs |-> NoJob]
  /\ dirs = {}
  /\ files = {}

VARIABLES
  vurl,       \* req.query.url of the verify-video request
  vpc,        \* where its handler stands
  vhead,      \* what the HEAD request came to (NoHead: nothing, or a throw)
  vresponse,  \* the answer: its status and the `valid` of its body
  remote,     \* the remote resource behind vurl, from the first request on
  epoch,      \* how often the remote resource has changed
  vlog        \* the requests the route has answered: [url, epoch, response]

verifyVars == <<vurl, vpc, vhead, vresponse, remote, epoch, vlog>>

VerifyInit ==
  /\ vurl = EmptyUrl
  /\ vpc = "idle"
  /\ vhead = NoHead
  /\ vresponse = NoVerifyResponse
  /\ remote = Unreachable
  /\ epoch = 0
  /\ vlog = <<>>

serverVars == <<mergeVars, verifyVars>>

VARIABLES
  adapter     \* one invocation of a provider adapter

AdapterInit == adapter = NoAdapter

VARIABLES
  tts         \* one call of generateAudio

AudioInit == tts = NoCall

VARIABLES
  regens      \* the runs of handleRegenerateScene, by slot

RegenInit == regens = [s \in 1..MaxRegens |-> NoRegen]

VARIABLES
  fwr         \* one call of fetchWithRetry

FetchInit == fwr = NoFetch

otherVars == <<adapter, tts, regens, fwr>>

vars == <<resolverVars, appVars, serverVars, otherVars>>

Init == ResolverInit /\ AppInit /\ MergeInit /\ VerifyInit /\ AdapterInit
        /\ AudioInit /\ RegenInit /\ FetchInit

\* ------------------------------------------------------------ search-video
Ok(url) == [status |-> 200, url |-> url]

\* the client's fetch throws, no answer reaches generateSceneVideo
FetchFails ==
  /\ rpc = "idle"
  /\ \E q \in Queries : query' = q
  /\ rpc' = "done"
  /\ browser' = "none"
  /\ round' = 0
  /\ sources' = Idle
  /\ tried' = <<>>
  /\ joined' = <<>>
  /\ response' = NoResponse
  /\ UNCHANGED <<appVars, serverVars, otherVars>>

\* GET /api/search-video?q=...: if (!query) return res.status(400)...
SearchVideo ==
  /\ rpc = "idle"
  /\ \E q \in Queries :
       /\ query' = q
       /\ IF IsEmptyString(q)
          THEN /\ response' = [status |-> 400, url |-> UNDEFINED]
               /\ rpc' = "done"
          ELSE /\ response' = NoResponse
               /\ rpc' = "launch"
  /\ browser' = "none"
  /\ round' = 0
  /\ sources' = Idle
  /\ tried' = <<>>
  /\ joined' = <<>>
  /\ UNCHANGED <<appVars, serverVars, otherVars>>

\* browser = await puppeteer.launch(...)
LaunchOk ==
  /\ rpc = "launch"
  /\ browser' = "open"
  /\ rpc' = "page"
  /\ UNCHANGED <<query, round, sources, tried, joined, response>>
  /\ UNCHANGED <<appVars, serverVars, otherVars>>

\* launch throws: catch answers, finally finds no browser
LaunchFails ==
  /\ rpc = "launch"
  /\ response' = Ok(criticalFallback)
  /\ rpc' = "done"
  /\ UNCHANGED <<query, browser, round, sources, tried, joined>>
  /\ UNCHANGED <<appVars, serverVars, otherVars>>

\* the adapters of term k are all called before the handler awaits them
StartRound(k) ==
  /\ round' = k
  /\ tried' = Append(tried, variations(query)[k])
  /\ sources' = AllPending

\* res.json({ url }) and, in the finally block, browser.close()
Respond(url) ==
  /\ response' = Ok(url)
  /\ browser' = "closed"
  /\ rpc' = "done"

\* page = await browser.newPage(); setViewport; setUserAgent; then the loop
PageOk ==
  /\ rpc = "page"
  /\ NextTerm(query, 0) # 0
  /\ StartRound(NextTerm(query, 0))
  /\ rpc' = "round"
  /\ UNCHANGED <<query, browser, joined, response>>
  /\ UNCHANGED <<appVars, serverVars, otherVars>>

\* one of them throws: catch answers, finally closes the browser
PageFails ==
  /\ rpc = "page"
  /\ Respond(criticalFallback)
  /\ UNCHANGED <<query, round, sources, tried, joined>>
  /\ UNCHANGED <<appVars, serverVars, otherVars>>

Outcomes == {"candidate", "nothing", "error"}

\* an adapter returns while others are still running
AdapterReturns(i) ==
  /\ rpc = "round"
  /\ sources[i] = PENDING
  /\ \E j \in 1..NumAdapters : j # i /\ sources[j] = PENDING
  /\ \E found \in Outcomes :
       sources' = [sources EXCEPT ![i] = tryAdapter(Adapters[i], TRUE, found, TRUE)]
  /\ UNCHANGED <<query, rpc, browser, round, tried, joined, response>>
  /\ UNCHANGED <<appVars, serverVars, otherVars>>

\* an adapter's promise rejects: Promise.all rejects at once, the catch block
\* answers and the finally block closes the browser; the adapters still
\* running are awaited by nobody
AdapterRejects(i) ==
  /\ rpc = "round"
  /\ sources[i] = PENDING
  /\ \E opened, closed \in BOOLEAN, found \in Outcomes :
       /\ tryAdapter(Adapters[i], opened, found, closed) = REJECTED
       /\ sources' = [sources EXCEPT ![i] = REJECTED]
  /\ Respond(criticalFallback)
  /\ UNCHANGED <<query, round, tried, joined>>
  /\ UNCHANGED <<appVars, serverVars, otherVars>>

\* the last adapter returns: const results = await Promise.all(sources);
\* const validUrl = results.find(...); if (validUrl) return res.json(...);
\* else the next term, or after the last one a random fallback
LastAdapterReturns(i) ==
  /\ rpc = "round"
  /\ sources[i] = PENDING
  /\ \A j \in 1..NumAdapters : j # i => sources[j] # PENDING
  /\ \E found \in Outcomes :
       LET results == [sources EXCEPT ![i] = tryAdapter(Adapters[i], TRUE, found, TRUE)]
           validUrl == find(results)
       IN  /\ joined' = Append(joined, results)
           /\ IF Truthy(validUrl)
              THEN /\ Respond(validUrl)
                   /\ sources' = results
                   /\ UNCHANGED <<round, tried>>
              ELSE IF NextTerm(query, round) # 0
              THEN /\ StartRound(NextTerm(query, round))
                   /\ UNCHANGED <<rpc, browser, response>>
              ELSE /\ \E f \in 1..Len(fallbacks) : Respond(fallbacks[f])
                   /\ sources' = results
                   /\ UNCHANGED <<round, tried>>
  /\ UNCHANGED query
  /\ UNCHANGED <<appVars, serverVars, otherVars>>

\* a step of the search-video handler that is serving a request
HandlerStep ==
  \/ LaunchOk
  \/ LaunchFails
  \/ PageOk
  \/ PageFails
  \/ \E i \in 1..NumAdapters : AdapterReturns(i)
  \/ \E i \in 1..NumAdapters : AdapterRejects(i)
  \/ \E i \in 1..NumAdapters : LastAdapterReturns(i)

ResolverNext ==
  \/ FetchFails
  \/ SearchVideo
  \/ HandlerStep

\* ---- handleGenerate
\* The loop control between two awaits, reached at the top of the while of
\* scene i (0-based) with `n` attempts made and `found`; N scenes in all.
\* It either starts the next attempt (after a delay, or calling
\* generateSceneVideo at once), or goes on to the next scene, or ends the
\* loop: setHistory(prev => [newShort, ...prev]) and the finally block.
EnterAttempt(i, n, calls) ==
  /\ gi' = i
  /\ attempts' = n
  /\ foundValidVideo' = FALSE
  /\ IF needsDelay(i, n)
     THEN gpc' = "delay" /\ gResolve' = calls
     ELSE gpc' = "resolve" /\ gResolve' = [calls EXCEPT ![i + 1] = @ + 1]

GenLoop(N, i, n, found) ==
  IF whileContinues(found, n)
  THEN /\ EnterAttempt(i, n + 1, gResolve)
       /\ UNCHANGED <<history, isGenerating>>
  ELSE IF i + 1 < N /\ whileContinues(FALSE, 0)
  THEN /\ EnterAttempt(i + 1, 1, gResolve)
       /\ UNCHANGED <<history, isGenerating>>
  ELSE /\ history' = <<newShort>> \o history
       /\ isGenerating' = FALSE
       /\ gpc' = "idle"
       /\ gi' = N
       /\ attempts' = 0
       /\ foundValidVideo' = FALSE
       /\ UNCHANGED gResolve

\* the Generate button: disabled={isGenerating || !prompt.trim()}
GenerateClick ==
  /\ ~isGenerating
  /\ gpc = "idle"
  /\ created < MaxProjects
  /\ isGenerating' = TRUE
  /\ gpc' = "script"
  /\ UNCHANGED <<isMerging, currentShort, history, finalVideoUrl, sceneObj, created>>
  /\ UNCHANGED <<newShort, gi, attempts, foundValidVideo, videoUrl, gResolve, gVerify, gOutcome>>
  /\ UNCHANGED exportVars
  /\ UNCHANGED <<resolverVars, serverVars, otherVars>>

\* generateShortScript throws: catch (alert), finally
ScriptFails ==
  /\ gpc = "script"
  /\ isGenerating' = FALSE
  /\ gpc' = "idle"
  /\ UNCHANGED <<isMerging, currentShort, history, finalVideoUrl, sceneObj, created>>
  /\ UNCHANGED <<newShort, gi, attempts, foundValidVideo, videoUrl, gResolve, gVerify, gOutcome>>
  /\ UNCHANGED exportVars
  /\ UNCHANGED <<resolverVars, serverVars, otherVars>>

\* generateShortScript returns a storyboard of n scenes: newShort is built
\* and shown, and the first attempt of the first scene calls the resolver
ScriptReturns ==
  /\ gpc = "script"
  /\ \E n \in 1..MaxScenes :
       LET id == created + 1
           short == [id |-> id, scenes |-> [k \in 1..n |-> <<id, k>>],
                     finalVideoUrl |-> UNDEFINED]
       IN  /\ created' = id
           /\ newShort' = short
           /\ currentShort' = short
           /\ sceneObj' = [r \in SceneRefs |->
                 IF r[1] = id /\ r[2] <= n
                 THEN [imagePrompt |-> <<"sky">>, videoUrl |-> UNDEFINED]
                 ELSE sceneObj[r]]
  /\ finalVideoUrl' = NULL
  /\ videoUrl' = UNDEFINED
  /\ gVerify' = NoCalls
  /\ gOutcome' = NoOutcomes
  /\ EnterAttempt(0, 1, NoCalls)
  /\ UNCHANGED <<isGenerating, isMerging, history>>
  /\ UNCHANGED exportVars
  /\ UNCHANGED <<resolverVars, serverVars, otherVars>>

\* the 2000 ms timer fires: generateSceneVideo is called
GenDelayDone ==
  /\ gpc = "delay"
  /\ gpc' = "resolve"
  /\ gResolve' = [gResolve EXCEPT ![gi + 1] = @ + 1]
  /\ UNCHANGED uiVars
  /\ UNCHANGED <<newShort, gi, attempts, foundValidVideo, videoUrl, gVerify, gOutcome>>
  /\ UNCHANGED exportVars
  /\ UNCHANGED <<resolverVars, serverVars, otherVars>>

\* generateSceneVideo returns null: if (videoUrl) is skipped
GenResolveAbsent ==
  /\ gpc = "resolve"
  /\ videoUrl' = UNDEFINED
  /\ gOutcome' = [gOutcome EXCEPT ![gi + 1] = Append(@, "absent")]
  /\ GenLoop(Len(newShort.scenes), gi, attempts, foundValidVideo)
  /\ UNCHANGED <<isMerging, currentShort, finalVideoUrl, sceneObj, created>>
  /\ UNCHANGED <<newShort, gVerify>>
  /\ UNCHANGED exportVars
  /\ UNCHANGED <<resolverVars, serverVars, otherVars>>

\* generateSceneVideo returns a URL: verifyVideo is called
GenResolveUrl ==
  /\ gpc = "resolve"
  /\ \E u \in SceneUrls : videoUrl' = u
  /\ gpc' = "verify"
  /\ gVerify' = [gVerify EXCEPT ![gi + 1] = @ + 1]
  /\ UNCHANGED uiVars
  /\ UNCHANGED <<newShort, gi, attempts, foundValidVideo, gResolve, gOutcome>>
  /\ UNCHANGED exportVars
  /\ UNCHANGED <<resolverVars, serverVars, otherVars>>

\* verifyVideo returns true: the clip is stored and the UI updated
GenVerifyValid ==
  /\ gpc = "verify"
  /\ sceneObj' = [sceneObj EXCEPT ![newShort.scenes[gi + 1]] = stored(@, videoUrl, TRUE)]
  /\ currentShort' = withScenes(currentShort, newShort.scenes)
  /\ gOutcome' = [gOutcome EXCEPT ![gi + 1] = Append(@, "valid")]
  /\ GenLoop(Len(newShort.scenes), gi, attempts, TRUE)
  /\ videoUrl' = UNDEFINED
  /\ UNCHANGED <<isMerging, finalVideoUrl, created>>
  /\ UNCHANGED <<newShort, gVerify>>
  /\ UNCHANGED exportVars
  /\ UNCHANGED <<resolverVars, serverVars, otherVars>>

\* verifyVideo returns false: nothing is stored
GenVerifyInvalid ==
  /\ gpc = "verify"
  /\ gOutcome' = [gOutcome EXCEPT ![gi + 1] = Append(@, "invalid")]
  /\ GenLoop(Len(newShort.scenes), gi, attempts, FALSE)
  /\ videoUrl' = UNDEFINED
  /\ sceneObj' = [sceneObj EXCEPT ![newShort.scenes[gi + 1]] = stored(@, videoUrl, FALSE)]
  /\ UNCHANGED <<isMerging, currentShort, finalVideoUrl, created>>
  /\ UNCHANGED <<newShort, gVerify>>
  /\ UNCHANGED exportVars
  /\ UNCHANGED <<resolverVars, serverVars, otherVars>>

GenStep ==
  \/ ScriptFails
  \/ ScriptReturns
  \/ GenDelayDone
  \/ GenResolveAbsent
  \/ GenResolveUrl
  \/ GenVerifyValid
  \/ GenVerifyInvalid

\* ---- handleExport
Examined(i, url) ==
  [idx |-> i, hadUrl |-> Truthy(url), verifies |-> IF Truthy(url) THEN 1 ELSE 0,
   valid |-> FALSE, resolves |-> IF Truthy(url) THEN 0 ELSE 1,
   recovered |-> FALSE, done |-> FALSE]

\* The loop control of handleExport between two awaits, reached with scene
\* i (0-based) next, `ex` the scenes examined and `heap` the scene objects:
\* scene i is read (a clip: verifyVideo is called; none: isValid stays false
\* and generateSceneVideo is called), or the loop is over and the gate runs.
ExportGo(scenes, i, ex, heap) ==
  IF i < Len(scenes)
  THEN LET url == heap[scenes[i + 1]].videoUrl
       IN  /\ ei' = i
           /\ exam' = Append(ex, Examined(i, url))
           /\ epc' = IF Truthy(url) THEN "verify" ELSE "recover"
           /\ isMerging' = TRUE
           /\ exportResult' = "none"
           /\ mergeArgs' = <<>>
           /\ prompt' = "none"
  ELSE LET finalUrls == finalUrlsOf(scenes, heap)
       IN  /\ ei' = i
           /\ exam' = ex
           /\ IF exportRefused(finalUrls)
              THEN /\ isMerging' = FALSE
                   /\ epc' = "idle"
                   /\ exportResult' = "refused"
                   /\ mergeArgs' = <<>>
                   /\ prompt' = "none"
              ELSE IF ~needsConfirm(finalUrls, Len(scenes))
              THEN /\ isMerging' = TRUE
                   /\ epc' = "merge"
                   /\ exportResult' = "none"
                   /\ mergeArgs' = finalUrls
                   /\ prompt' = "none"
              ELSE \E proceed \in BOOLEAN :
                     IF ~proceed
                     THEN /\ isMerging' = FALSE
                          /\ epc' = "idle"
                          /\ exportResult' = "declined"
                          /\ mergeArgs' = <<>>
                          /\ prompt' = "declined"
                     ELSE /\ isMerging' = TRUE
                          /\ epc' = "merge"
                          /\ exportResult' = "none"
                          /\ mergeArgs' = finalUrls
                          /\ prompt' = "confirmed"

\* the Export button: disabled={!currentShort || isMerging || isGenerating}
ExportClick ==
  /\ currentShort # NoProject
  /\ ~isMerging
  /\ ~isGenerating
  /\ epc = "idle"
  /\ eShort' = currentShort
  /\ ExportGo(currentShort.scenes, 0, <<>>, sceneObj)
  /\ gResolve' = NoCalls
  /\ gVerify' = NoCalls
  /\ gOutcome' = NoOutcomes
  /\ UNCHANGED <<isGenerating, currentShort, history, finalVideoUrl, sceneObj, created>>
  /\ UNCHANGED <<gpc, newShort, gi, attempts, foundValidVideo, videoUrl>>
  /\ UNCHANGED <<resolverVars, serverVars, otherVars>>

SetLast(ex, rec) == [ex EXCEPT ![Len(ex)] = rec]

\* isValid = await verifyVideo(url) has settled: if (!isValid) the recovery
\* call is made, otherwise the loop goes on to the next scene
AfterVerify(isValid) ==
  LET rec == [exam[Len(exam)] EXCEPT !.valid = isValid]
  IN  IF needsRecovery(isValid)
      THEN /\ epc' = "recover"
           /\ exam' = SetLast(exam, [rec EXCEPT !.resolves = @ + 1])
           /\ UNCHANGED <<isMerging, ei, mergeArgs, exportResult, prompt>>
      ELSE ExportGo(eShort.scenes, ei + 1,
                    SetLast(exam, [rec EXCEPT !.done = TRUE]), sceneObj)

\* verifyVideo returns true for the scene's clip
ExportVerifyValid ==
  /\ epc = "verify"
  /\ AfterVerify(TRUE)
  /\ UNCHANGED <<isGenerating, currentShort, history, finalVideoUrl, sceneObj, created>>
  /\ UNCHANGED eShort
  /\ UNCHANGED genVars
  /\ UNCHANGED <<resolverVars, serverVars, otherVars>>

\* verifyVideo returns false (or its fetch failed)
ExportVerifyInvalid ==
  /\ epc = "verify"
  /\ AfterVerify(FALSE)
  /\ UNCHANGED <<isGenerating, currentShort, history, finalVideoUrl, sceneObj, created>>
  /\ UNCHANGED eShort
  /\ UNCHANGED genVars
  /\ UNCHANGED <<resolverVars, serverVars, otherVars>>

\* the recovery call returns a URL: it is stored, the UI updated
ExportRecovered ==
  /\ epc = "recover"
  /\ \E u \in SceneUrls :
       LET heap == [sceneObj EXCEPT ![eShort.scenes[ei + 1]].videoUrl = u]
       IN  /\ sceneObj' = heap
           /\ ExportGo(eShort.scenes, ei + 1,
                SetLast(exam, [exam[Len(exam)] EXCEPT !.recovered = TRUE, !.done = TRUE]),
                heap)
  /\ currentShort' = withScenes(currentShort, eShort.scenes)
  /\ UNCHANGED <<isGenerating, history, finalVideoUrl, created>>
  /\ UNCHANGED eShort
  /\ UNCHANGED genVars
  /\ UNCHANGED <<resolverVars, serverVars, otherVars>>

\* the recovery call returns null: if (recoveredUrl) is skipped
ExportNotRecovered ==
  /\ epc = "recover"
  /\ ExportGo(eShort.scenes, ei + 1,
              SetLast(exam, [exam[Len(exam)] EXCEPT !.done = TRUE]),
              sceneObj)
  /\ UNCHANGED <<isGenerating, currentShort, history, finalVideoUrl, sceneObj, created>>
  /\ UNCHANGED eShort
  /\ UNCHANGED genVars
  /\ UNCHANGED <<resolverVars, serverVars, otherVars>>

\* setHistory(prev => prev.map(p => p.id === updatedProject.id ? updatedProject : p))
replaceById(list, project) ==
  [k \in 1..Len(list) |-> IF list[k].id = project.id THEN project ELSE list[k]]

\* mergeVideos returns the merged URL: it is attached, shown and recorded
ExportMerged ==
  /\ epc = "merge"
  /\ LET updatedProject == [eShort EXCEPT !.finalVideoUrl = MergedUrl]
     IN  /\ currentShort' = updatedProject
         /\ finalVideoUrl' = MergedUrl
         /\ history' = replaceById(history, updatedProject)
  /\ isMerging' = FALSE
  /\ epc' = "idle"
  /\ exportResult' = "merged"
  /\ UNCHANGED <<isGenerating, sceneObj, created>>
  /\ UNCHANGED <<eShort, ei, exam, mergeArgs, prompt>>
  /\ UNCHANGED genVars
  /\ UNCHANGED <<resolverVars, serverVars, otherVars>>

\* mergeVideos returns null: only the finally block runs
ExportMergeFails ==
  /\ epc = "merge"
  /\ isMerging' = FALSE
  /\ epc' = "idle"
  /\ exportResult' = "failed"
  /\ IF attaches(NULL)
     THEN LET updatedProject == [eShort EXCEPT !.finalVideoUrl = NULL]
          IN  /\ currentShort' = updatedProject
              /\ finalVideoUrl' = NULL
              /\ history' = replaceById(history, updatedProject)
     ELSE UNCHANGED <<currentShort, history, finalVideoUrl>>
  /\ UNCHANGED <<isGenerating, sceneObj, created>>
  /\ UNCHANGED <<eShort, ei, exam, mergeArgs, prompt>>
  /\ UNCHANGED genVars
  /\ UNCHANGED <<resolverVars, serverVars, otherVars>>

ExportStep ==
  \/ ExportVerifyValid
  \/ ExportVerifyInvalid
  \/ ExportRecovered
  \/ ExportNotRecovered
  \/ ExportMerged
  \/ ExportMergeFails

AppNext ==
  \/ GenerateClick
  \/ GenStep
  \/ ExportClick
  \/ ExportStep

\* ------------------------------------------------------------ merge-videos
Video(job) == job.videoUrls.items[job.i + 1]
Audio(job) == job.audioUrls.items[job.i + 1]

\* POST /api/merge-videos: the two input checks, then jobId = uuidv4(),
\* fs.mkdirSync(jobDir) (outside the try: when it throws the handler ends
\* without an answer) and the first download is started
MergeVideos(j) ==
  /\ jobs[j].pc = "idle"
  /\ \E v \in VideoFields, a \in AudioFields :
       LET job == [jobs[j] EXCEPT !.videoUrls = v, !.audioUrls = a]
       IN  IF ~requestAccepted(v, a)
           THEN /\ jobs' = [jobs EXCEPT ![j] =
                     [job EXCEPT !.pc = "done",
                                 !.response = [status |-> 400, url |-> NoUrl]]]
                /\ UNCHANGED dirs
           ELSE \E id \in Uuids :
                  IF mkdirSyncThrows(dirs, id)
                  THEN /\ jobs' = [jobs EXCEPT ![j] = [job EXCEPT !.pc = "threw"]]
                       /\ UNCHANGED dirs
                  ELSE /\ jobs' = [jobs EXCEPT ![j] =
                            [job EXCEPT !.pc = "video", !.jobId = id]]
                       /\ dirs' = dirs \cup {id}
  /\ UNCHANGED files
  /\ UNCHANGED <<resolverVars, appVars, verifyVars, otherVars>>

\* 1. the clip is downloaded into raw_v_<i>.mp4
VideoDownloaded(j) ==
  /\ jobs[j].pc = "video"
  /\ files' = write(files, jobs[j].jobId, rawVideoPath(jobs[j].i),
                    Raw(Video(jobs[j]).name, "", Video(jobs[j]).dur), j)
  /\ jobs' = [jobs EXCEPT ![j].pc = "audio"]
  /\ UNCHANGED dirs
  /\ UNCHANGED <<resolverVars, appVars, verifyVars, otherVars>>

\* 2. the audio is written (data: URL) or downloaded into raw_a_<i>.wav
AudioDownloaded(j) ==
  /\ jobs[j].pc = "audio"
  /\ files' = write(files, jobs[j].jobId, rawAudioPath(jobs[j].i),
                    Raw("", Audio(jobs[j]).name, Audio(jobs[j]).dur), j)
  /\ jobs' = [jobs EXCEPT ![j].pc = "probe"]
  /\ UNCHANGED dirs
  /\ UNCHANGED <<resolverVars, appVars, verifyVars, otherVars>>

\* 3. ffprobe of the audio file answers with its duration
AudioProbed(j) ==
  /\ jobs[j].pc = "probe"
  /\ LET rawAudio == fileAt(files, jobs[j].jobId, rawAudioPath(jobs[j].i)).content
     IN  jobs' = [jobs EXCEPT ![j].duration = probedDuration(rawAudio.dur),
                              ![j].pc = "encode"]
  /\ UNCHANGED <<dirs, files>>
  /\ UNCHANGED <<resolverVars, appVars, verifyVars, otherVars>>

\* 4. the scene is encoded from the two raw files into scene_<i>.mp4 and
\* pushed; then the next scene, or 5. the concatenation is started
SceneEncoded(j) ==
  /\ jobs[j].pc = "encode"
  /\ LET job == jobs[j]
         rawVideo == fileAt(files, job.jobId, rawVideoPath(job.i)).content
         rawAudio == fileAt(files, job.jobId, rawAudioPath(job.i)).content
         scene == [segments |-> <<[clip |-> rawVideo.segments[1].clip,
                                   audio |-> rawAudio.segments[1].audio]>>,
                   dur |-> encodedDuration(rawVideo.dur, rawAudio.dur, job.duration)]
     IN  /\ files' = write(files, job.jobId, sceneOutputPath(job.i), scene, j)
         /\ jobs' = [jobs EXCEPT ![j] =
               [job EXCEPT !.scenePaths = push(@, sceneOutputPath(job.i)),
                           !.i = @ + 1,
                           !.pc = IF job.i + 1 < Len(job.videoUrls.items)
                                  THEN "video" ELSE "concat"]]
  /\ UNCHANGED dirs
  /\ UNCHANGED <<resolverVars, appVars, verifyVars, otherVars>>

\* mergeToFile ends: the final file is written and its url answered
Concatenated(j) ==
  /\ jobs[j].pc = "concat"
  /\ LET job == jobs[j]
     IN  /\ files' = write(files, job.jobId, outputFilename(job.jobId),
                           concat(files, job.jobId, job.scenePaths), j)
         /\ jobs' = [jobs EXCEPT ![j] =
               [job EXCEPT !.pc = "done",
                           !.response = [status |-> 200,
                              url |-> tempUrl(job.jobId, outputFilename(job.jobId))]]]
  /\ UNCHANGED dirs
  /\ UNCHANGED <<resolverVars, appVars, verifyVars, otherVars>>

\* a download, the probe, the encode or the concatenation fails: the await
\* throws into the catch block
MergeStepFails(j) ==
  /\ jobs[j].pc \in {"video", "audio", "probe", "encode", "concat"}
  /\ jobs' = [jobs EXCEPT ![j] = catchBlock([jobs[j] EXCEPT !.failedAt = jobs[j].pc])]
  /\ UNCHANGED <<dirs, files>>
  /\ UNCHANGED <<resolverVars, appVars, verifyVars, otherVars>>

MergeNext ==
  \E j \in 1..MaxJobs :
    \/ MergeVideos(j)
    \/ VideoDownloaded(j)
    \/ AudioDownloaded(j)
    \/ AudioProbed(j)
    \/ SceneEncoded(j)
    \/ Concatenated(j)
    \/ MergeStepFails(j)

\* ------------------------------------------------------------ verify-video
\* the route's answer is sent: it is the client's response
Answer(u, resp) ==
  /\ vresponse' = resp
  /\ vlog' = Append(vlog, [url |-> u, epoch |-> epoch, response |-> resp])
  /\ vpc' = "done"

\* GET /api/verify-video?url=...: if (!url) return res.status(400); else the
\* HEAD request is sent
Request(u) ==
  /\ vurl' = u
  /\ IF u = EmptyUrl
     THEN Answer(u, [status |-> 400, valid |-> "undefined"])
     ELSE vpc' = "head" /\ vresponse' = NoVerifyResponse /\ UNCHANGED vlog
  /\ vhead' = NoHead
  /\ UNCHANGED epoch

\* the first request for a URL, whatever the state of the resource behind it
VerifyVideo ==
  /\ vpc = "idle"
  /\ \E u \in VerifyUrls : Request(u)
  /\ \E r \in RemoteStates : remote' = r
  /\ UNCHANGED <<resolverVars, appVars, mergeVars, otherVars>>

\* the same URL is verified once more
VerifyAgain ==
  /\ vpc = "done"
  /\ vlog # <<>>
  /\ Len(vlog) < MaxCalls
  /\ Request(vurl)
  /\ UNCHANGED remote
  /\ UNCHANGED <<resolverVars, appVars, mergeVars, otherVars>>

\* the client's fetch throws: the request never reaches the route
VerifyFetchFails ==
  /\ vpc = "idle"
  /\ \E u \in VerifyUrls : vurl' = u
  /\ vpc' = "done"
  /\ vresponse' = NoVerifyResponse
  /\ UNCHANGED <<vhead, remote, epoch, vlog>>
  /\ UNCHANGED <<resolverVars, appVars, mergeVars, otherVars>>

\* the HEAD request is answered with a 2xx status:
\* res.json({ valid: isVideo && response.status === 200 })
HeadAnswers ==
  /\ vpc = "head"
  /\ resolves(remote)
  /\ vhead' = remote
  /\ Answer(vurl, [status |-> 200,
             valid |-> Bool(isVideo(vurl, remote.contentType) /\ remote.status = 200)])
  /\ remote' = head(remote)
  /\ UNCHANGED <<vurl, epoch>>
  /\ UNCHANGED <<resolverVars, appVars, mergeVars, otherVars>>

\* the HEAD request throws (network failure, timeout, a status outside
\* 2xx): catch { res.json({ valid: false }) }
HeadFails ==
  /\ vpc = "head"
  /\ ~resolves(remote)
  /\ Answer(vurl, [status |-> 200, valid |-> "false"])
  /\ UNCHANGED <<vurl, vhead, remote, epoch>>
  /\ UNCHANGED <<resolverVars, appVars, mergeVars, otherVars>>

\* the remote resource changes: it expires, comes back, changes its type
RemoteChanges ==
  /\ epoch < MaxChanges
  /\ \E r \in RemoteStates : r # remote /\ remote' = r
  /\ epoch' = epoch + 1
  /\ UNCHANGED <<vurl, vpc, vhead, vresponse, vlog>>
  /\ UNCHANGED <<resolverVars, appVars, mergeVars, otherVars>>

VerifyNext ==
  \/ VerifyVideo
  \/ VerifyAgain
  \/ VerifyFetchFails
  \/ HeadAnswers
  \/ HeadFails
  \/ RemoteChanges

\* ------------------------------------------------------------ adapters
\* tryX(searchTerm): const xPage = await browser.newPage() stands before the
\* try block: when it throws the promise rejects
InvokeAdapter ==
  /\ adapter.pc = "idle"
  /\ \E a \in AdapterNames :
       \/ adapter' = [NoAdapter EXCEPT !.name = a, !.pc = "search",
                                       !.pages = <<Page("search")>>]
       \/ adapter' = [NoAdapter EXCEPT !.name = a, !.pc = "done",
                                       !.result = Rejected]
  /\ UNCHANGED <<resolverVars, appVars, serverVars, tts, regens, fwr>>

\* the search page's goto or evaluate throws: catch (log), finally, null
SearchThrows ==
  /\ adapter.pc = "search"
  /\ \E st \in {"open", "gone"} :
       adapter' \in Leave([adapter EXCEPT !.pages[1] =
                              [@ EXCEPT !.status = st, !.failed = TRUE]],
                          NoCandidate)
  /\ UNCHANGED <<resolverVars, appVars, serverVars, tts, regens, fwr>>

\* the search page is read: an adapter without detail links returns one of
\* the media URLs that pass its tests, the others sample the links and go
\* to the first
SearchReturns ==
  /\ adapter.pc = "search"
  /\ IF detailPages(adapter.name) = "none"
     THEN \E videoCards \in 0..1, srcs \in Lists(MediaUrls, MaxSrcs) :
            \E value \in fromSearchPage(adapter.name, videoCards, srcs) :
              adapter' \in Leave([adapter EXCEPT !.found = Len(srcs),
                                    !.seen = {srcs[i] : i \in 1..Len(srcs)}],
                                 value)
     ELSE \E videoLinks \in Lists(LinkUrls, MaxLinks) :
            \E links \in randomLinks(adapter.name, videoLinks) :
              adapter' \in Advance([adapter EXCEPT !.found = Len(videoLinks),
                                                   !.links = links], 1)
  /\ UNCHANGED <<resolverVars, appVars, serverVars, tts, regens, fwr>>

\* a detail link was looked up, or the lookup threw
DetailStep ==
  /\ adapter.pc = "detail"
  /\ \/ adapter' \in DetailThrows(adapter)
     \/ \E videoSrc \in MediaUrls \cup {NoSrc} :
          adapter' \in DetailReturns(adapter, videoSrc)
  /\ UNCHANGED <<resolverVars, appVars, serverVars, tts, regens, fwr>>

AdapterNext ==
  \/ InvokeAdapter
  \/ SearchThrows
  \/ SearchReturns
  \/ DetailStep

\* ------------------------------------------------------------ narration
\* generateAudio(text, retries): for (let i = 0; i < retries; i++); with
\* retries = 0 the loop is skipped and the last line returns null
GenerateAudio ==
  /\ tts.pc = "idle"
  /\ \E retries \in 0..defaultRetries :
       tts' = IF 0 < retries
              THEN [NoCall EXCEPT !.pc = "calling", !.retries = retries]
              ELSE [NoCall EXCEPT !.pc = "done", !.result = "null"]
  /\ UNCHANGED <<resolverVars, appVars, serverVars, adapter, regens, fwr>>

\* await ai.models.generateContent(...) returns: the audio of the first
\* part as a data URL, or null when there is none
AttemptReturns ==
  /\ tts.pc = "calling"
  /\ \E base64Audio \in BOOLEAN :
       tts' = [tts EXCEPT !.pc = "done",
                 !.log = Append(@, IF base64Audio THEN DataUrl ELSE NoAudio),
                 !.result = IF base64Audio THEN "audio" ELSE "null"]
  /\ UNCHANGED <<resolverVars, appVars, serverVars, adapter, regens, fwr>>

\* it throws: a rate limit before the last attempt starts the backoff, any
\* other error (and the last attempt's) returns null
AttemptThrows ==
  /\ tts.pc = "calling"
  /\ \E message \in Messages :
       IF retriesAgain(message, tts.i, tts.retries)
       THEN \E jitter \in Jitters :
              tts' = [tts EXCEPT !.pc = "waiting",
                        !.log = Append(@, Thrown(message)),
                        !.delays = Append(@, backoff(tts.i, jitter))]
       ELSE tts' = [tts EXCEPT !.pc = "done",
                      !.log = Append(@, Thrown(message)),
                      !.result = "null"]
  /\ UNCHANGED <<resolverVars, appVars, serverVars, adapter, regens, fwr>>

\* the backoff is over: continue; i++; when i < retries fails the loop ends
\* and the last line returns null
BackoffOver ==
  /\ tts.pc = "waiting"
  /\ tts' = IF tts.i + 1 < tts.retries
            THEN [tts EXCEPT !.pc = "calling", !.i = @ + 1]
            ELSE [tts EXCEPT !.pc = "done", !.i = @ + 1, !.result = "null"]
  /\ UNCHANGED <<resolverVars, appVars, serverVars, adapter, regens, fwr>>

AudioNext ==
  \/ GenerateAudio
  \/ AttemptReturns
  \/ AttemptThrows
  \/ BackoffOver

\* ------------------------------------------------------------ regeneration
\* the scene view with its keyword and regenerate buttons is on screen: a
\* project is shown and no final video is
SceneControlsShown ==
  /\ currentShort # NoProject
  /\ ~Truthy(finalVideoUrl)
  /\ ~Truthy(currentShort.finalVideoUrl)

\* handleRegenerateScene(index) up to its await: updatedScenes is a copy of
\* the scene list of the closure's currentShort, generateSceneVideo is called
StartRegeneration(s, index) ==
  regens' = [regens EXCEPT ![s] =
               [pc |-> "resolve", short |-> currentShort, index |-> index,
                calls |-> <<"generateSceneVideo">>, videoUrl |-> UNDEFINED]]

\* the regenerate button of the scene on screen
RegenerateClick(s) ==
  /\ regens[s].pc = "idle"
  /\ SceneControlsShown
  /\ \E index \in 0..(Len(currentShort.scenes) - 1) : StartRegeneration(s, index)
  /\ UNCHANGED appVars
  /\ UNCHANGED <<resolverVars, serverVars, adapter, tts, fwr>>

\* handleUpdateKeywords: the scene's imagePrompt is set in place, the
\* project is set again with the same scenes, and handleRegenerateScene is
\* called for the scene
UpdateKeywords(s) ==
  /\ regens[s].pc = "idle"
  /\ SceneControlsShown
  /\ \E index \in 0..(Len(currentShort.scenes) - 1), editingKeywords \in Queries :
       /\ sceneObj' = [sceneObj EXCEPT
                         ![currentShort.scenes[index + 1]].imagePrompt = editingKeywords]
       /\ StartRegeneration(s, index)
  /\ currentShort' = withScenes(currentShort, currentShort.scenes)
  /\ UNCHANGED <<isGenerating, isMerging, history, finalVideoUrl, created>>
  /\ UNCHANGED <<genVars, exportVars>>
  /\ UNCHANGED <<resolverVars, serverVars, adapter, tts, fwr>>

\* what the search-video request of a regeneration can come to: no
\* response, 400 for an empty query, otherwise a URL
RegenResponses(imagePrompt) ==
  {NoResponse} \cup
    (IF IsEmptyString(imagePrompt)
     THEN {[status |-> 400, url |-> UNDEFINED]}
     ELSE {Ok(u) : u \in SceneUrls})

\* generateSceneVideo has settled: a URL is stored in the scene and the
\* closure's project is set; finally { setStatusMessage('') }
RegenReturns(s) ==
  /\ regens[s].pc = "resolve"
  /\ \E resp \in RegenResponses(sceneObj[Target(regens[s])].imagePrompt) :
       LET url == generateSceneVideo(resp)
       IN  /\ regens' = [regens EXCEPT ![s].pc = "done", ![s].videoUrl = url]
           /\ IF hasVideoUrl(url)
              THEN /\ sceneObj' = [sceneObj EXCEPT ![Target(regens[s])].videoUrl = url]
                   /\ currentShort' = withScenes(regens[s].short, regens[s].short.scenes)
              ELSE UNCHANGED <<sceneObj, currentShort>>
  /\ UNCHANGED <<isGenerating, isMerging, history, finalVideoUrl, created>>
  /\ UNCHANGED <<genVars, exportVars>>
  /\ UNCHANGED <<resolverVars, serverVars, adapter, tts, fwr>>

RegenNext ==
  \/ GenerateClick
  \/ GenStep
  \/ \E s \in 1..MaxRegens : RegenerateClick(s)
  \/ \E s \in 1..MaxRegens : UpdateKeywords(s)
  \/ \E s \in 1..MaxRegens : RegenReturns(s)

\* ------------------------------------------------------------ history list
\* a project of the history list is clicked:
\* setCurrentShort(item); setActiveSceneIndex(0)
SelectProject ==
  /\ \E h \in 1..Len(history) : currentShort' = history[h]
  /\ UNCHANGED <<isGenerating, isMerging, history, finalVideoUrl, sceneObj, created>>
  /\ UNCHANGED <<genVars, exportVars>>
  /\ UNCHANGED <<resolverVars, serverVars, otherVars>>

SelectNext ==
  \/ GenerateClick
  \/ GenStep
  \/ ExportClick
  \/ ExportStep
  \/ SelectProject

\* ------------------------------------------------------------ fetchWithRetry
\* fetchWithRetry(url): the first fetch is started
FetchWithRetry ==
  /\ fwr.pc = "idle"
  /\ fwr' = [NoFetch EXCEPT !.pc = "fetching"]
  /\ UNCHANGED <<resolverVars, appVars, serverVars, adapter, tts, regens>>

\* await fetch(url, options) gives a response: it is returned, or the delay
\* is started
FetchResponds ==
  /\ fwr.pc = "fetching"
  /\ \E status \in FetchStatuses, jitter \in FetchJitters :
       fwr' = IF retriesResponse(status, fwr.i)
              THEN [fwr EXCEPT !.pc = "waiting",
                               !.delays = Append(@, fetchDelay(fwr.i, jitter)),
                               !.log = Append(@, Responded(status))]
              ELSE [fwr EXCEPT !.pc = "done", !.result = ReturnedResponse(status),
                               !.log = Append(@, Responded(status))]
  /\ UNCHANGED <<resolverVars, appVars, serverVars, adapter, tts, regens>>

\* await fetch(url, options) raises: lastError = error; before the last
\* attempt the delay is started, after it the loop ends
FetchRaises ==
  /\ fwr.pc = "fetching"
  /\ LET call == [fwr EXCEPT !.lastError = fwr.i + 1,
                             !.log = Append(@, Raised(fwr.i + 1))]
     IN  fwr' = IF fwr.i < maxRetries - 1
                THEN [call EXCEPT !.pc = "waiting",
                                  !.delays = Append(@, fetchDelay(fwr.i, 0))]
                ELSE Continue(call)
  /\ UNCHANGED <<resolverVars, appVars, serverVars, adapter, tts, regens>>

\* the delay is over: continue
FetchDelayOver ==
  /\ fwr.pc = "waiting"
  /\ fwr' = Continue(fwr)
  /\ UNCHANGED <<resolverVars, appVars, serverVars, adapter, tts, regens>>

FetchNext ==
  \/ FetchWithRetry
  \/ FetchResponds
  \/ FetchRaises
  \/ FetchDelayOver

\* ------------------------------------------------------------ specifications
\* one resolve call, from the client's fetch to the handler's end
Spec == Init /\ [][ResolverNext]_vars

\* the App component: generations and exports of its projects
SpecApp == Init /\ [][AppNext]_vars

\* the merge-videos route serving its requests, one after or beside another
SpecMerge == Init /\ [][MergeNext]_vars

\* the verify-video route serving the requests for one URL
SpecVerify == Init /\ [][VerifyNext]_vars

\* one invocation of one provider adapter
SpecAdapter == Init /\ [][AdapterNext]_vars

\* one call of generateAudio
SpecAudio == Init /\ [][AudioNext]_vars

\* the App with its history list: generate, export, select
SpecSelect == Init /\ [][SelectNext]_vars

\* one call of fetchWithRetry
SpecFetch == Init /\ [][FetchNext]_vars

\* the App generating projects while scenes are regenerated by hand
SpecRegen == Init /\ [][RegenNext]_vars

\* ------------------------------------------------------------ resolver claims
\* the request has been answered (or the client's fetch has failed)
Answered == rpc = "done"

\* the adapters of the round being awaited that returned a candidate
Returned == {i \in 1..NumAdapters : sources[i] \in Clips}

\* some adapter returned a candidate, in the current or in a joined round
SomeCandidate ==
  \/ Returned # {}
  \/ \E k \in 1..Len(joined), i \in 1..NumAdapters : joined[k][i] \in Clips

EarliestListedCandidateAnswered ==
  (Answered /\ Returned # {}) =>
     response.url = sources[CHOOSE i \in Returned : \A j \in Returned : i <= j]

\* C3 as stated: a failure inside an adapter, opening or closing its page
\* included, is mapped to absent: no promise of the fan-out rejects, and the
\* answer is given only after every adapter of the round has returned
AdapterFailureIsAbsent ==
  /\ \A i \in 1..NumAdapters : sources[i] # REJECTED
  /\ (Answered /\ round > 0) => \A i \in 1..NumAdapters : sources[i] # PENDING

\* C4: the variations are tried in list order; the adapters are invoked for
\* a later variation only after every adapter returned absent for each
\* earlier one, so never after an adapter has returned a candidate
VariationsInOrder ==
  /\ Len(tried) <= Len(variations(query))
  /\ \A k \in 1..Len(tried) : tried[k] = variations(query)[k]
  /\ Len(joined) <= Len(tried)
  /\ \A k \in 1..(Len(tried) - 1) :
        /\ k <= Len(joined)
        /\ \A i \in 1..NumAdapters : joined[k][i] = NULL
  /\ \A k \in 1..Len(joined) :
        (\E i \in 1..NumAdapters : joined[k][i] \in Clips) => Len(tried) = k

\* C4 witness: two rounds of absent adapters, then a candidate in the third
ThirdVariationFindsCandidate ==
  /\ Answered
  /\ Len(tried) = 3
  /\ tried[2] = query \o <<"cinematic">>
  /\ Len(joined) = 3
  /\ response.url \in Clips

\* C5 as stated: a clip of the fallback pool is answered only when no
\* adapter returned a candidate
FallbackOnlyWithoutCandidate ==
  (Answered /\ response.status = 200 /\ response.url \in FallbackPool) =>
     ~SomeCandidate

\* ------------------------------------------------------------ App claims
\* the scenes of the storyboard being generated (or generated last)
NumScenes == Len(newShort.scenes)

\* the call counts describe the last generation (an export clears them)
GenerationLogged == newShort # NoProject /\ gResolve[1] > 0

\* C6: a scene triggers at most 2 resolve calls during generation (and no
\* verify call without a resolve call), and a scene whose first resolved
\* clip passes verification triggers exactly one resolve and one verify call
AtMostTwoResolveCalls ==
  \A k \in 1..MaxScenes :
     /\ gResolve[k] <= 2
     /\ gVerify[k] <= gResolve[k]
     /\ Len(gOutcome[k]) <= gResolve[k]
     /\ (gOutcome[k] # <<>> /\ gOutcome[k][1] = "valid") =>
           gResolve[k] = 1 /\ gVerify[k] = 1

\* C6 witness: a generation is over in which one scene used both attempts
\* and another succeeded on its first
TwoAttemptsAndFirstSuccess ==
  /\ gpc = "idle"
  /\ \E k, j \in 1..MaxScenes :
        /\ gOutcome[k] = <<"invalid", "absent">>
        /\ gResolve[k] = 2
        /\ gOutcome[j] = <<"valid">>
        /\ gResolve[j] = 1

\* C7: generation goes forward: while it runs some step of it can be taken,
\* the scenes before the current one were all reached and the attempt count
\* stays within maxAttempts; when it is over the generating flag is false,
\* the project is in the history, every scene was reached, and a scene that
\* never verified holds no clip
GenerationGoesForward ==
  /\ (gpc = "idle") = ~isGenerating
  /\ gpc # "idle" => ENABLED GenStep
  /\ gpc \in {"delay", "resolve", "verify"} =>
        /\ gi < NumScenes
        /\ attempts \in 1..maxAttempts
        /\ \A k \in 1..gi : gResolve[k] >= 1
        /\ gResolve[gi + 1] + (IF gpc = "delay" THEN 1 ELSE 0) = attempts
  /\ (gpc = "idle" /\ newShort # NoProject) =>
        \E h \in 1..Len(history) : history[h].id = newShort.id
  /\ (gpc = "idle" /\ GenerationLogged) =>
        \A k \in 1..NumScenes :
           /\ gResolve[k] >= 1
           /\ (\A a \in 1..Len(gOutcome[k]) : gOutcome[k][a] # "valid") =>
                 sceneObj[newShort.scenes[k]].videoUrl = UNDEFINED

\* C7 witness: the first scene exhausted its attempts (a failed resolve, a
\* failed verification), the second one was still processed and got its clip
DegradedSceneThenNextScene ==
  /\ gpc = "idle"
  /\ ~isGenerating
  /\ NumScenes >= 2
  /\ gOutcome[1] = <<"absent", "invalid">>
  /\ sceneObj[newShort.scenes[1]].videoUrl = UNDEFINED
  /\ gOutcome[2] = <<"valid">>
  /\ Truthy(sceneObj[newShort.scenes[2]].videoUrl)
  /\ \E h \in 1..Len(history) : history[h].id = newShort.id

\* the export loop has examined every scene
ExportExamined ==
  /\ eShort # NoProject
  /\ Len(exam) = Len(eShort.scenes)
  /\ \A k \in 1..Len(exam) : exam[k].done

\* C8: export examines the scenes once each, in scene order; a scene that
\* has a clip is re-verified (once), one that has none is not; a scene whose
\* clip is missing or fails verification triggers exactly one recovery
\* resolve call, one whose clip verifies triggers none; the gate is reached
\* only after every scene was examined
ExportExaminesEverySceneOnce ==
  /\ Len(exam) <= Len(eShort.scenes)
  /\ \A k \in 1..Len(exam) :
        /\ exam[k].idx = k - 1
        /\ exam[k].verifies = (IF exam[k].hadUrl THEN 1 ELSE 0)
        /\ exam[k].resolves <= 1
        /\ exam[k].valid => exam[k].hadUrl
        /\ exam[k].done =>
              exam[k].resolves = (IF exam[k].hadUrl /\ exam[k].valid THEN 0 ELSE 1)
        /\ k < Len(exam) => exam[k].done
  /\ epc \in {"verify", "recover"} => Len(exam) = ei + 1 /\ ~exam[ei + 1].done
  /\ (epc = "merge" \/ exportResult # "none") => ExportExamined

\* C8 witness: an export is over that re-verified a good clip without a
\* resolve call and recovered, with one call, a clip that did not verify
ExportRecheckedAndRecovered ==
  /\ exportResult # "none"
  /\ Len(exam) = 2
  /\ exam[1].hadUrl /\ exam[1].valid /\ exam[1].resolves = 0
  /\ exam[2].hadUrl /\ ~exam[2].valid /\ exam[2].resolves = 1

\* the scenes of the export that verified or were recovered
GoodScenes == {k \in 1..Len(exam) : exam[k].valid \/ exam[k].recovered}

\* C9 as stated: only the scenes that verified or were recovered contribute
\* a clip to the list handed to mergeVideos
OnlyGoodScenesAssembled ==
  epc = "merge" => Len(mergeArgs) = Cardinality(GoodScenes)

\* C10 as stated: when no scene verified or was recovered, mergeVideos is
\* not called: the export ends with the merging flag false and no final
\* video attached by it
RefusedWithoutGoodScene ==
  (ExportExamined /\ GoodScenes = {}) =>
     /\ epc = "idle"
     /\ exportResult \in {"refused", "declined"}
     /\ mergeArgs = <<>>

\* the export has passed its loop and come to the gate's decision
GateDecided == ExportExamined /\ (epc = "merge" \/ exportResult # "none")

\* some but not all scenes verified or were recovered
PartlyGood == 0 < Cardinality(GoodScenes) /\ Cardinality(GoodScenes) < Len(exam)

\* C11 as stated: with some but not all scenes good, mergeVideos is called
\* only after the user confirmed; after a decline it is not called and the
\* export is over
ConfirmedBeforePartialAssembly ==
  /\ (epc = "merge" /\ PartlyGood) => prompt = "confirmed"
  /\ prompt = "declined" =>
        epc = "idle" /\ exportResult = "declined" /\ mergeArgs = <<>>

\* C12 as stated: the confirmation prompt is shown exactly when some but not
\* all scenes hold a good clip after re-verification and recovery
PromptIffPartlyGood ==
  GateDecided => ((prompt # "none") <=> PartlyGood)

\* the scenes whose clip the classifier declared valid during this export
VerifiedScenes == {k \in 1..Len(exam) : exam[k].valid}

\* C13 as stated: the clips handed to mergeVideos are those of the scenes
\* that verifyVideo declared valid during this export
OnlyVerifiedClipsAssembled ==
  epc = "merge" => Len(mergeArgs) = Cardinality(VerifiedScenes)

\* ------------------------------------------------------------ assembly claims
\* the request of a job names n >= 1 clips and as many audios
WellFormed(job) ==
  /\ job.videoUrls.given /\ Len(job.videoUrls.items) > 0
  /\ job.audioUrls.given /\ Len(job.audioUrls.items) = Len(job.videoUrls.items)

\* the final file of a job that answered 200
FinalOf(job) == fileAt(files, job.jobId, job.response.url.file).content

\* C14: assembly is all-or-nothing: a job one of whose downloads, probes or
\* encodes (or whose concatenation) failed answers 500 without a url; a url
\* is answered only with 200, after every scene of the request was
\* downloaded, encoded and put into the concatenation
AssemblyAllOrNothing ==
  \A j \in 1..MaxJobs :
     LET job == jobs[j]
     IN  /\ job.failedAt # "none" =>
               job.pc = "done" /\ job.response = [status |-> 500, url |-> NoUrl]
         /\ job.response.url # NoUrl => job.response.status = 200
         /\ job.response.status = 200 =>
               /\ job.failedAt = "none"
               /\ Len(job.scenePaths) = Len(job.videoUrls.items)
               /\ \A k \in 1..Len(job.videoUrls.items) :
                     /\ exists(files, job.jobId, rawVideoPath(k - 1))
                     /\ exists(files, job.jobId, rawAudioPath(k - 1))
                     /\ exists(files, job.jobId, sceneOutputPath(k - 1))
               /\ exists(files, job.jobId, job.response.url.file)
               /\ Len(FinalOf(job).segments) = Len(job.videoUrls.items)

\* C14 witness: the first scene of two was encoded, the encode of the second
\* failed: the job answered 500 and wrote no final file
SecondSceneFailsTheJob ==
  \E j \in 1..MaxJobs :
     /\ jobs[j].failedAt = "encode"
     /\ jobs[j].i = 1
     /\ exists(files, jobs[j].jobId, sceneOutputPath(0))
     /\ jobs[j].response.status = 500
     /\ ~exists(files, jobs[j].jobId, outputFilename(jobs[j].jobId))

\* C15: a request whose clip list is missing or empty, or whose audio list
\* is missing or of another length, is answered 400 at once: the job gets no
\* identifier, no directory is made for it and it writes no file
InputContractChecked ==
  /\ \A j \in 1..MaxJobs :
        (jobs[j].pc # "idle" /\ ~WellFormed(jobs[j])) =>
           /\ jobs[j].pc = "done"
           /\ jobs[j].response = [status |-> 400, url |-> NoUrl]
           /\ jobs[j].jobId = ""
           /\ \A f \in files : f.by # j
  /\ \A d \in dirs : \E j \in 1..MaxJobs : jobs[j].jobId = d /\ WellFormed(jobs[j])

\* C15 witness: two clips with one audio were refused while no directory
\* existed
MismatchedListsRefused ==
  \E j \in 1..MaxJobs :
     /\ jobs[j].videoUrls.given /\ Len(jobs[j].videoUrls.items) = 2
     /\ jobs[j].audioUrls.given /\ Len(jobs[j].audioUrls.items) = 1
     /\ jobs[j].response.status = 400
     /\ dirs = {}

\* C16: a job that succeeds publishes one final file, whatever the number
\* of its scenes, at /temp/<jobId>/final_short_<jobId>.mp4
OneArtifactPerJob ==
  \A j \in 1..MaxJobs :
     jobs[j].response.status = 200 =>
        /\ jobs[j].response.url =
              [dir |-> jobs[j].jobId,
               file |-> [kind |-> "final_short", i |-> 0, id |-> jobs[j].jobId]]
        /\ exists(files, jobs[j].response.url.dir, jobs[j].response.url.file)
        /\ Cardinality({f \in files : /\ f.dir = jobs[j].jobId
                                      /\ f.name.kind = "final_short"}) = 1

\* C16 witness: a job of one scene and a job of two scenes have both
\* succeeded
OneAndTwoScenesPublished ==
  \E j1, j2 \in 1..MaxJobs :
     /\ jobs[j1].response.status = 200 /\ Len(jobs[j1].videoUrls.items) = 1
     /\ jobs[j2].response.status = 200 /\ Len(jobs[j2].videoUrls.items) = 2

RECURSIVE SumDur(_)
SumDur(list) == IF list = <<>> THEN 0 ELSE Head(list).dur + SumDur(Tail(list))

\* C17: every encoded scene lasts as long as its narration audio, whatever
\* the length of its clip, and the final file as long as all the audios
AudioIsTimingAuthority ==
  \A j \in 1..MaxJobs :
     LET job == jobs[j]
     IN  /\ \A k \in 1..Len(job.scenePaths) :
               fileAt(files, job.jobId, job.scenePaths[k]).content.dur
                  = job.audioUrls.items[k].dur
         /\ job.response.status = 200 =>
               FinalOf(job).dur = SumDur(job.audioUrls.items)

\* C17 witness: a succeeded job with a clip shorter than its audio and a
\* clip longer than its audio
ShortAndLongClipSynced ==
  \E j \in 1..MaxJobs :
     /\ jobs[j].response.status = 200
     /\ Len(jobs[j].videoUrls.items) = 2
     /\ jobs[j].videoUrls.items[1].dur < jobs[j].audioUrls.items[1].dur
     /\ jobs[j].videoUrls.items[2].dur > jobs[j].audioUrls.items[2].dur

\* C18: the scenes are concatenated in input order: segment k of the final
\* file is made of clip k and audio k of the request
ConcatenatedInInputOrder ==
  \A j \in 1..MaxJobs :
     LET job == jobs[j]
     IN  /\ \A k \in 1..Len(job.scenePaths) : job.scenePaths[k] = sceneOutputPath(k - 1)
         /\ job.response.status = 200 =>
               FinalOf(job).segments =
                  [k \in 1..Len(job.videoUrls.items) |->
                     [clip |-> job.videoUrls.items[k].name,
                      audio |-> job.audioUrls.items[k].name]]

\* C18 witness: a job whose two scenes differ in clip and audio succeeded
TwoDifferentScenesMerged ==
  \E j \in 1..MaxJobs :
     /\ jobs[j].response.status = 200
     /\ Len(jobs[j].videoUrls.items) = 2
     /\ jobs[j].videoUrls.items[1] # jobs[j].videoUrls.items[2]
     /\ jobs[j].audioUrls.items[1] # jobs[j].audioUrls.items[2]

\* C19: no two jobs have the same directory, every file was written by the
\* job that owns its directory, and a job's url points into its own
JobOwnsItsDirectory ==
  /\ \A j1, j2 \in 1..MaxJobs :
        (j1 # j2 /\ jobs[j1].jobId # "") => jobs[j1].jobId # jobs[j2].jobId
  /\ \A j \in 1..MaxJobs :
        /\ jobs[j].jobId # "" => jobs[j].jobId \in dirs
        /\ jobs[j].response.url # NoUrl => jobs[j].response.url.dir = jobs[j].jobId
  /\ \A f \in files : jobs[f.by].jobId = f.dir /\ f.dir \in dirs

\* C19 witness: two jobs are at work at once, each with files of its own
TwoJobsAtWork ==
  \E j1, j2 \in 1..MaxJobs :
     /\ j1 # j2
     /\ jobs[j1].pc = "encode" /\ jobs[j2].pc = "encode"
     /\ \E f \in files : f.by = j1
     /\ \E f \in files : f.by = j2

\* ------------------------------------------------------------ classifier claims
\* C20 as stated: a URL is declared valid exactly when the HEAD request
\* answered 200 and the content type names video or the URL's path ends in
\* .mp4 or .webm
ValidIffVideoTypeOrExtension ==
  vpc = "done" =>
     (verifyVideo(vresponse) = "true" <=>
        /\ vhead.status = 200
        /\ \/ includes(vhead.contentType, "video")
           \/ pathEndsWith(vurl, ".mp4")
           \/ pathEndsWith(vurl, ".webm"))

Markers == {"pond5", "Getty", "iStock"}

\* C24: no URL an adapter returns names a denylisted provider, however the
\* name is spelled
NoWatermarkedCandidate ==
  adapter.result.kind = "url" =>
     \A k \in 1..Len(adapter.result.url) : adapter.result.url[k] \notin Markers

\* C24 witness: an adapter saw a URL of a denylisted provider spelled with a
\* capital and returned another one
CapitalMarkerPassedOver ==
  /\ adapter.pc = "done"
  /\ <<"https://", "Getty", "/clip.mp4">> \in adapter.seen
  /\ adapter.result.kind = "url"

\* C30: an adapter invocation follows at most 3 detail links
AtMostThreeDetailLinks ==
  /\ adapter.visited <= 3
  /\ Len(adapter.links) <= 3
  /\ Cardinality({i \in 1..Len(adapter.pages) : adapter.pages[i].kind = "detail"}) <= 3

\* C30 witness: the search page showed four links and three were followed
FourLinksThreeFollowed ==
  /\ adapter.pc = "done"
  /\ adapter.found = 4
  /\ adapter.visited = 3

\* ------------------------------------------------------------ fan-out claim
\* C25 as stated: in a round every adapter is started before a result is
\* awaited, and the answer is given only when every adapter of the round
\* has completed (returned or rejected)
AnsweredAfterEveryAdapter ==
  /\ round > 0 => \A i \in 1..NumAdapters : sources[i] # NOTCALLED
  /\ (Answered /\ round > 0) =>
        \A i \in 1..NumAdapters : sources[i] \notin {NOTCALLED, PENDING}

\* ------------------------------------------------------------ narration claim
\* the messages of the rate-limited failures
RateLimited ==
  { <<"got status: ", "429", " Too Many Requests">>,
    <<"got status: ", "RESOURCE_EXHAUSTED">> }

Returns(s) == regens[s].pc = "resolve" /\ regens'[s].pc = "done"

Exported(id) ==
  \/ currentShort.id = id /\ Truthy(currentShort.finalVideoUrl)
  \/ \E k \in 1..Len(history) :
        history[k].id = id /\ Truthy(history[k].finalVideoUrl)

\* C28 as stated: once a final video has been attached to a project, no
\* step changes the query or the clip reference of one of its scenes
ExportedProjectImmutable ==
  [][\A r \in SceneRefs : Exported(r[1]) => sceneObj'[r] = sceneObj[r]]_vars

\* ------------------------------------------------------------ generation order
\* the attempts of scene k (1-based) of the generation are over: its last
\* clip verified, or maxAttempts attempts were made
AttemptsEnded(k) ==
  /\ gOutcome[k] # <<>>
  /\ \/ gOutcome[k][Len(gOutcome[k])] = "valid"
     \/ Len(gOutcome[k]) = maxAttempts

\* C29: generateSceneVideo is called for a scene of the generation only
\* when the attempts of the scene before it are over, and every such call
\* is made when the 2000 ms delay ends, except the first call for the first
\* scene, which follows the script
SequentialWithDelay ==
  /\ [](\A k \in 2..MaxScenes : gResolve[k] > 0 => AttemptsEnded(k - 1))
  /\ [][\A k \in 1..MaxScenes :
          gResolve'[k] = gResolve[k] + 1 =>
             gpc = "delay" \/ (k = 1 /\ gpc = "script")]_vars

\* C29 witness: the first scene used both attempts, then the resolver was
\* called for the second scene
SecondSceneAfterTwoAttempts ==
  /\ gpc = "resolve"
  /\ gi = 1
  /\ gResolve[1] = 2
  /\ gResolve[2] = 1
  /\ Len(gOutcome[1]) = 2

\* ------------------------------------------------------------ backoff claim
\* C31: the wait after the rate-limited failure of attempt i (0-based) is
\* at least 5000 * 2^i ms and less than 5000 * 2^i + 2000 ms, and a call
\* with `retries` attempts waits at most retries - 1 times
BackoffExponentialWithJitter ==
  /\ \A k \in 1..Len(tts.delays) :
        /\ tts.delays[k] >= 5000 * 2 ^ (k - 1)
        /\ tts.delays[k] < 5000 * 2 ^ (k - 1) + 2000
  /\ tts.retries > 0 => Len(tts.delays) <= tts.retries - 1
  /\ tts.retries = 0 => tts.delays = <<>>

\* C31 witness: a call of five attempts has waited four times, the longest
\* jitter after the third attempt and none after the fourth
FourBackoffsSlept ==
  /\ tts.retries = 5
  /\ Len(tts.delays) = 4
  /\ tts.delays[1] \in 5000..6999
  /\ tts.delays[3] = 21999
  /\ tts.delays[4] = 40000

\* ------------------------------------------------------------ stored clips
\* scene k (1-based) of the project being generated
GenScene(k) == <<newShort.id, k>>

\* a step taken while a generation runs changes the clip of one of its
\* scenes only when verifyVideo returns true for the URL just resolved for
\* that scene, and then to that URL
StoresWhatVerified ==
  gpc \in {"delay", "resolve", "verify"} =>
     \A k \in 1..NumScenes :
        sceneObj'[GenScene(k)].videoUrl # sceneObj[GenScene(k)].videoUrl =>
           /\ gpc = "verify"
           /\ k = gi + 1
           /\ Truthy(videoUrl)
           /\ sceneObj'[GenScene(k)].videoUrl = videoUrl
           /\ gOutcome'[k] = Append(gOutcome[k], "valid")

\* a scene of the running generation holds a clip only if its last attempt
\* verified
HeldClipsVerified ==
  gpc \in {"delay", "resolve", "verify"} =>
     \A k \in 1..NumScenes :
        Truthy(sceneObj[GenScene(k)].videoUrl) =>
           /\ gOutcome[k] # <<>>
           /\ gOutcome[k][Len(gOutcome[k])] = "valid"

\* C32: while a generation runs, the clip reference of one of its scenes
\* is set only to a URL that verifyVideo declared valid in that attempt; a
\* resolved URL that fails verification is never stored in the scene
OnlyVerifiedClipsStored == []HeldClipsVerified /\ [][StoresWhatVerified]_vars

\* C32 witness: the first URL resolved for a scene failed verification and
\* was not stored, the second verified and is the scene's clip
SecondUrlStoredAfterInvalidFirst ==
  /\ NumScenes >= 1
  /\ gOutcome[1] = <<"invalid", "valid">>
  /\ Truthy(sceneObj[GenScene(1)].videoUrl)

\* ------------------------------------------------------------ fetchWithRetry claim
\* C33 as stated: fetchWithRetry makes at most maxRetries requests; when
\* the last attempt of a call got a response the call returns that
\* response, and no delay is slept after that attempt; it throws only when
\* the last attempt raised an error, and throws that error
LastResponseReturned ==
  LET n == Len(fwr.log)
      lastGotResponse == n > 0 /\ fwr.log[n].kind = "response"
  IN  /\ n <= maxRetries
      /\ (lastGotResponse /\ fwr.pc = "done") =>
            /\ fwr.result = ReturnedResponse(fwr.log[n].status)
            /\ Len(fwr.delays) = n - 1
      /\ (lastGotResponse /\ n = maxRetries) => Len(fwr.delays) <= n - 1
      /\ fwr.result.kind = "threw" =>
            /\ fwr.log[n].kind = "error"
            /\ fwr.result.error = fwr.log[n].error

\* ------------------------------------------------------------ browser claim
\* C34 as stated: when the handler is over the browser it launched is
\* closed, and when the browser is closed no adapter of the call is still
\* running
BrowserClosedAfterAdapters ==
  /\ rpc = "done" => browser # "open"
  /\ browser = "closed" => \A i \in 1..NumAdapters : sources[i] # PENDING

\* ------------------------------------------------------------ failed export
\* the step in which mergeVideos comes to nothing changes neither the
\* project on screen nor the final video shown nor the history
FailedMergeAttachesNothing ==
  (epc = "merge" /\ exportResult' = "failed") =>
     /\ currentShort' = currentShort
     /\ finalVideoUrl' = finalVideoUrl
     /\ history' = history

\* after a failed export the project's history entry (and the project, if
\* it is on screen) has the final video it had when Export was clicked; no
\* export in flight: the merging flag is false
AfterExportUnchangedAndIdle ==
  /\ epc = "idle" => ~isMerging
  /\ exportResult = "failed" =>
        /\ \A h \in 1..Len(history) :
              history[h].id = eShort.id =>
                 history[h].finalVideoUrl = eShort.finalVideoUrl
        /\ currentShort.id = eShort.id =>
              currentShort.finalVideoUrl = eShort.finalVideoUrl

\* C35: an export whose mergeVideos call fails leaves the project's final
\* video reference and its history entry as they were, and when an export
\* is over, however it ended, the merging flag is false
FailedExportChangesNothing ==
  []AfterExportUnchangedAndIdle /\ [][FailedMergeAttachesNothing]_vars

\* C35 witness: a project that was exported once is exported again, the
\* merge fails, and the project still has its first final video
ReExportFailedKeepsFinal ==
  /\ exportResult = "failed"
  /\ ~isMerging
  /\ eShort.finalVideoUrl = MergedUrl
  /\ \E h \in 1..Len(history) :
        history[h].id = eShort.id /\ history[h].finalVideoUrl = MergedUrl

\* ------------------------------------------------------------ displayed final video
\* src={finalVideoUrl || currentShort?.finalVideoUrl}
Displayed ==
  IF Truthy(finalVideoUrl) THEN finalVideoUrl
  ELSE IF currentShort # NoProject THEN currentShort.finalVideoUrl
  ELSE UNDEFINED

\* C36 as stated: a final video on display is the one an export attached
\* to the project that is current
DisplayedFinalIsOfCurrentProject ==
  Truthy(Displayed) =>
     /\ currentShort # NoProject
     /\ currentShort.finalVideoUrl = Displayed

\* ------------------------------------------------------------ pending regeneration
\* the return of a regeneration leaves the project on screen the one it
\* was, and changes no scene but its own
ReturnKeepsCurrentProject ==
  \A s \in 1..MaxRegens : Returns(s) =>
     /\ currentShort' = currentShort
     /\ \A r \in SceneRefs \ {Target(regens[s])} : sceneObj'[r] = sceneObj[r]

\* C37 as stated: the completion of a regeneration never changes which
\* project is current, and changes only the scene it was started for
RegenerationKeepsCurrentProject == [][ReturnKeepsCurrentProject]_vars

\* ------------------------------------------------------------ distinct search terms
\* C38 as stated: within one resolve call the terms the adapters were
\* invoked with are pairwise distinct, whatever the query
TriedTermsPairwiseDistinct ==
  \A a, b \in 1..Len(tried) : a # b => tried[a] # tried[b]

=============================================================================
